---- MODULE Spec2Model ----
(***************************************************************************)
(* fancy-proxy: the segment cache (src/src/utils/lru-cache.ts), the M3U8   *)
(* proxy with its prefetch pipeline and header policy                      *)
(* (src/src/utils/headers.ts) and the connection pools                     *)
(* (src/ecosystem.config.js).                                              *)
(*                                                                         *)
(* The specifications share the variables:                                 *)
(*   Spec         the LRUCache class driven through its public methods,    *)
(*                with the constructor arguments drawn from Configs;       *)
(*   SpecProxy    the module state of headers.ts: the segmentCache, the    *)
(*                environment switches, the sweep timer, the requests of   *)
(*                the default handler and the detached prefetch tasks;     *)
(*   SpecHeaders  the headers of the requests sent to an origin;           *)
(*   SpecPool     the ConnectionPoolManager, pooledRequest and closeAll;   *)
(*   SpecRewrite  proxyM3U8 on the text of a manifest, character by        *)
(*                character;                                               *)
(*   SpecShared   the cache shared by concurrent prefetch tasks, segment   *)
(*                reads and sweeps, with the small limits of Configs.      *)
(***************************************************************************)
EXTENDS Integers, Sequences, FiniteSets, TLC

VARIABLES
  cache,               \* LRUCache.cache: the Map, as its entries in insertion order
  currentMemoryBytes,  \* LRUCache.currentMemoryBytes
  maxSize,             \* LRUCache.maxSize
  maxMemoryBytes,      \* LRUCache.maxMemoryBytes
  expiryMs,            \* LRUCache.expiryMs
  now,                 \* the value Date.now() returns
  lastOp,              \* history: the last LRUCache method call and what it returned
  calls,               \* history: the calls since construction, while they follow a scenario
  DISABLE_CACHE,       \* process.env.DISABLE_CACHE
  DISABLE_M3U8,        \* process.env.DISABLE_M3U8
  requests,            \* the open /m3u8-proxy requests: where each handler stands, its response
  tasks,               \* the prefetchSegment calls of the open requests, in call order
  timerDue,            \* the interval timer has fallen due and its callback has not run yet
  everEnabled,         \* history: DISABLE_CACHE has been other than "true" at some time
  outbound,            \* the last request sent to an origin: what sent it, its headers
  pools,               \* ConnectionPoolManager.pools: the Map, as pairs <<origin, pool>>
  built,               \* history: the pools constructed, in order; a pool is its index here
  shutdowns,           \* history: how many times closeAll has cleared the registry
  handed,              \* history: the getPool calls: origin, registry period, caller, pool returned
  closing,             \* the closeAll calls waiting at their await: the pools each closes
  preqs,               \* the pooledRequest calls: arguments, position, attempts, result
  rewriting            \* proxyM3U8 on the manifest text: the text read, the body returned

cacheVars == <<cache, currentMemoryBytes>>
confVars == <<maxSize, maxMemoryBytes, expiryMs>>
histVars == <<lastOp, calls>>
envVars == <<DISABLE_CACHE, DISABLE_M3U8, everEnabled>>
proxyVars == <<DISABLE_CACHE, DISABLE_M3U8, everEnabled, requests, tasks, timerDue>>
\* The state of the layers beside the cache and the manifest handler.
poolVars == <<pools, built, shutdowns, handed, closing, preqs>>
sideVars == <<outbound, pools, built, shutdowns, handed, closing, preqs, rewriting>>
vars ==
  <<cache, currentMemoryBytes, maxSize, maxMemoryBytes, expiryMs, now, lastOp, calls,
    DISABLE_CACHE, DISABLE_M3U8, requests, tasks, timerDue, everEnabled, outbound,
    pools, built, shutdowns, handed, closing, preqs, rewriting>>

----------------------------------------------------------------------------
(* Bounds and inputs *)

\* The clock advances MaxTime times at most.
MaxTime == 2

\* The number of /m3u8-proxy requests that are open at a time: being handled,
\* or answered with a prefetch of theirs still running or their response
\* still on record.
MaxRequests == 1

\* Cache keys (URLs).
Keys == {"A", "B", "C", "D"}

\* Header mappings: the default {} and one non-empty mapping.
NoHeaders == {}
SomeHeaders == {<<"content-type", "video/mp2t">>}

\* The arguments of set besides the key: a Uint8Array payload (only its bytes
\* and their number matter), a header mapping, and the optional sizeBytes
\* (absent, 0, or a number).
SetArgs ==
  { [data |-> <<1>>, headers |-> NoHeaders, sizeBytes |-> <<>>],
    [data |-> <<1>>, headers |-> NoHeaders, sizeBytes |-> <<0>>],
    [data |-> <<2, 2>>, headers |-> SomeHeaders, sizeBytes |-> <<>>],
    [data |-> <<2, 2>>, headers |-> SomeHeaders, sizeBytes |-> <<2>>],
    [data |-> <<4, 4, 4, 4>>, headers |-> NoHeaders, sizeBytes |-> <<>>] }

\* Constructor arguments (maxSize, maxMemoryBytes, expiryMs): one cache bounded
\* by its entry count, one bounded by its bytes.
Configs ==
  { [maxSize |-> 3, maxMemoryBytes |-> 12, expiryMs |-> 1],
    [maxSize |-> 5, maxMemoryBytes |-> 3, expiryMs |-> 1] }

NoKey == "-"

----------------------------------------------------------------------------
(* The Map<K, CacheEntry<T>>: a sequence of entries, oldest insertion first *)

mapHas(m, key) == \E i \in 1..Len(m) : m[i].key = key

mapIndex(m, key) == CHOOSE i \in 1..Len(m) : m[i].key = key

mapGet(m, key) == m[mapIndex(m, key)]

mapDelete(m, key) == SelectSeq(m, LAMBDA e : e.key # key)

\* Map.set keeps the position of a key that is present and appends a new one.
mapSet(m, key, entry) ==
  IF mapHas(m, key) THEN [m EXCEPT ![mapIndex(m, key)] = entry]
  ELSE Append(m, entry)

mapKeys(m) == [i \in 1..Len(m) |-> m[i].key]

----------------------------------------------------------------------------
(* LRUCache: each method as a function of the object state                 *)
(* c = [cache, currentMemoryBytes] and of the clock value t it reads       *)

Self == [cache |-> cache, currentMemoryBytes |-> currentMemoryBytes]

calculateSize(data) == Len(data)

\* Mutant: the entry is removed and the byte counter is left alone.
delete_NoAccounting(c, key) ==
  IF mapHas(c.cache, key) THEN [c EXCEPT !.cache = mapDelete(c.cache, key)] ELSE c

delete(c, key) ==
  IF mapHas(c.cache, key)
  THEN [cache |-> mapDelete(c.cache, key),
        currentMemoryBytes |-> c.currentMemoryBytes - mapGet(c.cache, key).sizeBytes]
  ELSE c

deleteResult(c, key) == mapHas(c.cache, key)

\* Mutant: an entry expires already when its age equals expiryMs.
isExpired_AtBoundary(entry, t) == t - entry.timestamp >= expiryMs

isExpired(entry, t) == t - entry.timestamp > expiryMs

\* Mutant: a hit returns the entry without moving it to the end.
get_NoPromote(c, key, t) ==
  IF ~mapHas(c.cache, key) THEN [c |-> c, ret |-> <<>>]
  ELSE LET entry == mapGet(c.cache, key) IN
       IF isExpired(entry, t) THEN [c |-> delete(c, key), ret |-> <<>>]
       ELSE [c |-> c, ret |-> <<entry>>]

\* Mutant: a hit stamps the entry with the time of the read.
get_Touch(c, key, t) ==
  IF ~mapHas(c.cache, key) THEN [c |-> c, ret |-> <<>>]
  ELSE LET entry == mapGet(c.cache, key) IN
       IF isExpired(entry, t) THEN [c |-> delete(c, key), ret |-> <<>>]
       ELSE [c |-> [c EXCEPT !.cache = mapSet(mapDelete(c.cache, key), key,
                                              [entry EXCEPT !.timestamp = t])],
             ret |-> <<entry>>]

get(c, key, t) ==
  IF ~mapHas(c.cache, key) THEN [c |-> c, ret |-> <<>>]
  ELSE LET entry == mapGet(c.cache, key) IN
       IF isExpired(entry, t) THEN [c |-> delete(c, key), ret |-> <<>>]
       ELSE [c |-> [c EXCEPT !.cache = mapSet(mapDelete(c.cache, key), key, entry)],
             ret |-> <<entry>>]

entrySizeOf(data, sizeBytes) ==
  IF sizeBytes # <<>> /\ sizeBytes[1] # 0 THEN sizeBytes[1] ELSE calculateSize(data)

\* Mutant: nothing is evicted for its bytes.
evictMemory_Never(c, entrySize) == c

\* Mutant: the memory eviction is an if, not a while: one entry at most goes.
evictMemory_Once(c, entrySize) ==
  IF c.currentMemoryBytes + entrySize > maxMemoryBytes /\ Len(c.cache) > 0
  THEN delete(c, c.cache[1].key)
  ELSE c

RECURSIVE evictMemory(_, _)
evictMemory(c, entrySize) ==
  IF c.currentMemoryBytes + entrySize > maxMemoryBytes /\ Len(c.cache) > 0
  THEN evictMemory(delete(c, c.cache[1].key), entrySize)
  ELSE c

\* Mutant: the entry limit is compared with > instead of >=.
evictEntries_OffByOne(c) ==
  IF Len(c.cache) > maxSize /\ Len(c.cache) > 0
  THEN delete(c, c.cache[1].key)
  ELSE c

evictEntries(c) ==
  IF Len(c.cache) >= maxSize /\ Len(c.cache) > 0
  THEN delete(c, c.cache[1].key)
  ELSE c

\* Mutant: the headers argument is dropped and the default {} is stored.
newEntry_DefaultHeaders(key, data, headers, entrySize, t) ==
  [key |-> key, data |-> data, headers |-> NoHeaders, timestamp |-> t,
   sizeBytes |-> entrySize]

newEntry(key, data, headers, entrySize, t) ==
  [key |-> key, data |-> data, headers |-> headers, timestamp |-> t,
   sizeBytes |-> entrySize]

set(c, key, data, headers, sizeBytes, t) ==
  LET entrySize == entrySizeOf(data, sizeBytes)
      c1 == IF mapHas(c.cache, key) THEN delete(c, key) ELSE c
      c2 == evictMemory(c1, entrySize)
      c3 == evictEntries(c2)
  IN [cache |-> mapSet(c3.cache, key, newEntry(key, data, headers, entrySize, t)),
      currentMemoryBytes |-> c3.currentMemoryBytes + entrySize]

clear(c) == [cache |-> <<>>, currentMemoryBytes |-> 0]

\* cleanup walks the entries in iteration order; deleting the entry just
\* visited does not disturb the walk, so every original entry is visited.
RECURSIVE cleanupFrom(_, _, _, _)
cleanupFrom(c, walk, t, removedCount) ==
  IF walk = <<>> THEN [c |-> c, ret |-> removedCount]
  ELSE IF isExpired(Head(walk), t)
       THEN cleanupFrom(delete(c, Head(walk).key), Tail(walk), t, removedCount + 1)
       ELSE cleanupFrom(c, Tail(walk), t, removedCount)

\* Mutant: the walk looks at the oldest insertion only.
cleanup_FirstOnly(c, t) ==
  IF c.cache # <<>> /\ isExpired(c.cache[1], t)
  THEN [c |-> delete(c, c.cache[1].key), ret |-> 1]
  ELSE [c |-> c, ret |-> 0]

cleanup(c, t) == cleanupFrom(c, c.cache, t, 0)

RECURSIVE sumSizes(_)
sumSizes(m) == IF m = <<>> THEN 0 ELSE Head(m).sizeBytes + sumSizes(Tail(m))

\* getStats: the entry count, the bytes summed over the entries, and the
\* counter (the MB/KB formatting of the last two is left out).
getStats(c) ==
  [entries |-> Len(c.cache),
   totalBytes |-> sumSizes(c.cache),
   maxSize |-> maxSize,
   currentMemoryBytes |-> c.currentMemoryBytes]

----------------------------------------------------------------------------
(* Spec: the LRUCache class *)

\* No request has been sent to an origin.
NoOutbound == [kind |-> "none", headers |-> {}]

\* No manifest text is being rewritten.
NoRewriting ==
  [pc |-> "idle", url |-> <<>>, headers |-> <<>>, m3u8Content |-> <<>>,
   result |-> [kind |-> "none", text |-> <<>>]]

\* The layers beside the cache before their first call.
SideInit ==
  /\ outbound = NoOutbound
  /\ pools = {}
  /\ built = <<>>
  /\ shutdowns = 0
  /\ handed = {}
  /\ closing = <<>>
  /\ preqs = <<>>
  /\ rewriting = NoRewriting

\* A request slot no request has used yet.
NewRequest ==
  [pc |-> "new", path |-> "", preflight |-> FALSE, url |-> "", headersParam |-> "absent",
   headers |-> NoHeaders, manifest |-> <<>>, upstream |-> "",
   status |-> 0, message |-> <<>>, body |-> <<>>, stats |-> <<>>, cleanups |-> 0]

NoOp ==
  [op |-> "new", key |-> NoKey, data |-> <<>>, headers |-> NoHeaders, time |-> 0,
   hit |-> <<>>, removed |-> 0, prev |-> "-"]

\* What the call before this one was, as far as a later get cares: a set of
\* the same key ("set", or "setEvict" when that set removed other entries).
prevOf(key) ==
  IF lastOp.op = "set" /\ lastOp.key = key
  THEN (IF lastOp.removed > 0 THEN "setEvict" ELSE "set")
  ELSE "-"

\* The two eviction scenarios, as calls <<method, key, entry size>> made on a
\* new cache at one clock value: S4 (entry limit) and S5 (byte budget).
S4Calls ==
  << <<"set", "A", 1>>, <<"set", "B", 1>>, <<"set", "C", 1>>, <<"get", "A", 0>>,
     <<"set", "D", 1>> >>

S5Calls ==
  << <<"set", "A", 1>>, <<"set", "B", 1>>, <<"set", "C", 1>>, <<"set", "D", 1>> >>

OffScenario == << <<"off", NoKey, 0>> >>

IsPrefix(s, t) == Len(s) <= Len(t) /\ \A i \in 1..Len(s) : s[i] = t[i]

called(call) ==
  LET n == Append(calls, call) IN
  IF calls # OffScenario /\ (IsPrefix(n, S4Calls) \/ IsPrefix(n, S5Calls))
  THEN n ELSE OffScenario

Init ==
  /\ cache = <<>>
  /\ currentMemoryBytes = 0
  /\ \E cf \in Configs :
       /\ maxSize = cf.maxSize
       /\ maxMemoryBytes = cf.maxMemoryBytes
       /\ expiryMs = cf.expiryMs
  /\ now = 0
  /\ lastOp = NoOp
  /\ calls = <<>>
  /\ DISABLE_CACHE = "false"
  /\ DISABLE_M3U8 = "false"
  /\ everEnabled = TRUE
  /\ requests = [r \in 1..MaxRequests |-> NewRequest]
  /\ tasks = <<>>
  /\ timerDue = FALSE
  /\ SideInit

\* Date.now() advances between two calls, by expiryMs.
Tick ==
  /\ now < MaxTime * expiryMs
  /\ now' = now + expiryMs
  /\ calls' = OffScenario
  /\ UNCHANGED <<cacheVars, confVars, sideVars, lastOp, proxyVars>>

CallGet ==
  \E key \in Keys :
    LET r == get(Self, key, now) IN
    /\ cache' = r.c.cache
    /\ currentMemoryBytes' = r.c.currentMemoryBytes
    /\ lastOp' = [NoOp EXCEPT !.op = "get", !.key = key,
                              !.hit = r.ret,
                              !.removed = Len(cache) - Len(r.c.cache),
                              !.prev = prevOf(key)]
    /\ calls' = called(<<"get", key, 0>>)
    /\ UNCHANGED <<confVars, sideVars, now, proxyVars>>

CallSet ==
  \E key \in Keys, a \in SetArgs :
    LET c == set(Self, key, a.data, a.headers, a.sizeBytes, now) IN
    /\ cache' = c.cache
    /\ currentMemoryBytes' = c.currentMemoryBytes
    /\ lastOp' = [NoOp EXCEPT !.op = "set", !.key = key, !.data = a.data,
                              !.headers = a.headers, !.time = now,
                              !.removed = Cardinality({i \in 1..Len(cache) :
                                             /\ cache[i].key # key
                                             /\ ~mapHas(c.cache, cache[i].key)})]
    /\ calls' = called(<<"set", key, entrySizeOf(a.data, a.sizeBytes)>>)
    /\ UNCHANGED <<confVars, sideVars, now, proxyVars>>

CallDelete ==
  \E key \in Keys :
    LET c == delete(Self, key) IN
    /\ cache' = c.cache
    /\ currentMemoryBytes' = c.currentMemoryBytes
    /\ lastOp' = [NoOp EXCEPT !.op = "delete", !.key = key,
                              !.removed = IF deleteResult(Self, key) THEN 1 ELSE 0]
    /\ calls' = OffScenario
    /\ UNCHANGED <<confVars, sideVars, now, proxyVars>>

CallCleanup ==
  LET r == cleanup(Self, now) IN
  /\ cache' = r.c.cache
  /\ currentMemoryBytes' = r.c.currentMemoryBytes
  /\ lastOp' = [NoOp EXCEPT !.op = "cleanup", !.removed = r.ret]
  /\ calls' = OffScenario
  /\ UNCHANGED <<confVars, sideVars, now, proxyVars>>

CallClear ==
  LET c == clear(Self) IN
  /\ cache' = c.cache
  /\ currentMemoryBytes' = c.currentMemoryBytes
  /\ lastOp' = [NoOp EXCEPT !.op = "clear", !.removed = Len(cache)]
  /\ calls' = OffScenario
  /\ UNCHANGED <<confVars, sideVars, now, proxyVars>>

Next ==
  \/ Tick
  \/ CallGet
  \/ CallSet
  \/ CallDelete
  \/ CallCleanup
  \/ CallClear

Spec == Init /\ [][Next]_vars

----------------------------------------------------------------------------
(* Properties of the LRUCache class (checked under Spec) *)

keySet(m) == {m[i].key : i \in 1..Len(m)}

\* A step of Spec that is a call of the method op (the clock stands still
\* during a call, and only calls write lastOp).
IsCall(op) == lastOp'.op = op /\ now' = now

\* C1: after every operation, currentMemoryBytes is the sum of sizeBytes over
\* the entries in the map, and the entry count getStats reports is the number
\* of keys in the map.
C1_Accounting ==
  /\ currentMemoryBytes = sumSizes(cache)
  /\ getStats(Self).entries = Cardinality(keySet(cache))
  /\ getStats(Self).totalBytes = getStats(Self).currentMemoryBytes

\* C1 witness: a cleanup has removed expired entries and left live ones.
C1_Witness ==
  /\ lastOp.op = "cleanup" /\ lastOp.removed >= 1
  /\ Len(cache) >= 2 /\ currentMemoryBytes >= 2

\* C2 as stated: after any set, the entry count is at most maxSize and
\* currentMemoryBytes is at most maxMemoryBytes.
C2_Original ==
  lastOp.op = "set" =>
    /\ Len(cache) <= maxSize
    /\ currentMemoryBytes <= maxMemoryBytes

\* C2 amended: after any set, the entry count is at most maxSize, and
\* currentMemoryBytes is at most maxMemoryBytes unless the entry just set is
\* itself larger than maxMemoryBytes, in which case it is the only entry and
\* currentMemoryBytes is its sizeBytes.
C2_Amended ==
  lastOp.op = "set" =>
    /\ Len(cache) <= maxSize
    /\ \/ currentMemoryBytes <= maxMemoryBytes
       \/ /\ Len(cache) = 1
          /\ cache[1].key = lastOp.key
          /\ cache[1].sizeBytes > maxMemoryBytes
          /\ currentMemoryBytes = cache[1].sizeBytes

\* C2 witness: a set on a full cache has evicted and the cache is at both
\* of its limits or at its entry limit.
C2_Witness ==
  /\ lastOp.op = "set" /\ lastOp.removed >= 1
  /\ Len(cache) = maxSize

\* C3: a get(k) that directly follows set(k, v, h), the clock having advanced
\* by at most expiryMs since the set, returns an entry with data v and headers h.
C3_GetAfterSet ==
  [][ ( /\ IsCall("get")
        /\ lastOp.op = "set"
        /\ lastOp'.key = lastOp.key
        /\ now - lastOp.time <= expiryMs )
      => /\ lastOp'.hit # <<>>
         /\ lastOp'.hit[1].data = lastOp.data
         /\ lastOp'.hit[1].headers = lastOp.headers ]_vars

\* C3 witness: a get hit directly after a set of the same key that evicted
\* other keys, with the clock advanced by exactly expiryMs in between.
C3_Witness ==
  /\ lastOp.op = "get" /\ lastOp.prev = "setEvict"
  /\ lastOp.hit # <<>>
  /\ lastOp.hit[1].headers = SomeHeaders
  /\ now - lastOp.hit[1].timestamp = expiryMs

\* C4: get(key) misses when the key is absent; removes the entry, lowers
\* currentMemoryBytes by its sizeBytes and misses when now - timestamp >
\* expiryMs; returns the stored entry when now - timestamp <= expiryMs.
C4_Get ==
  [][ IsCall("get") =>
        LET key == lastOp'.key IN
        IF ~mapHas(cache, key)
        THEN lastOp'.hit = <<>> /\ UNCHANGED cacheVars
        ELSE LET entry == mapGet(cache, key) IN
             IF now - entry.timestamp > expiryMs
             THEN /\ lastOp'.hit = <<>>
                  /\ cache' = mapDelete(cache, key)
                  /\ currentMemoryBytes' = currentMemoryBytes - entry.sizeBytes
             ELSE /\ lastOp'.hit = <<entry>>
                  /\ mapHas(cache', key) ]_vars

\* C4 witness: a get has met an expired entry and removed it, other entries
\* staying.
C4_Witness ==
  /\ lastOp.op = "get" /\ lastOp.hit = <<>> /\ lastOp.removed = 1
  /\ Len(cache) >= 1

\* The entries a set of key took out of the map besides key's own old entry,
\* as positions of the map before the call.
EvictedAt(key) ==
  {i \in 1..Len(cache) : cache[i].key # key /\ ~mapHas(cache', cache[i].key)}

SurvivingAt(key) ==
  {i \in 1..Len(cache) : cache[i].key # key /\ mapHas(cache', cache[i].key)}

\* C5: every entry a set evicts is less recently used than every entry that
\* survives it, and the most recently used evicted entry could not have
\* stayed: with it the byte budget or the entry limit would be exceeded.
C5_EvictsLRU ==
  [][ IsCall("set") =>
        LET key == lastOp'.key
            ev == EvictedAt(key)
        IN /\ \A i \in ev, j \in SurvivingAt(key) : i < j
           /\ ev # {} =>
                LET last == CHOOSE i \in ev : \A j \in ev : j <= i IN
                \/ currentMemoryBytes' + cache[last].sizeBytes > maxMemoryBytes
                \/ Len(cache') + 1 > maxSize ]_vars

\* C5, scenario S4: with maxSize = 3, set A, B, C, get A, set D evicts exactly B.
\* C5, scenario S5: with maxMemoryBytes = 3 units and three 1-unit entries
\* A, B, C, setting a 1-unit D evicts exactly A and leaves currentMemoryBytes = 3
\* (the unit is 100 bytes).
C5_Scenarios ==
  /\ (calls = S4Calls /\ maxSize = 3) =>
       /\ mapKeys(cache) = <<"C", "A", "D">>
       /\ lastOp.removed = 1
  /\ (calls = S5Calls /\ maxMemoryBytes = 3) =>
       /\ mapKeys(cache) = <<"B", "C", "D">>
       /\ lastOp.removed = 1
       /\ currentMemoryBytes = 3

\* C5: the order property on every set, and the two scenarios.
C5_Eviction == C5_EvictsLRU /\ []C5_Scenarios

\* C5 witness: scenario S4 has run on the cache with maxSize = 3.
C5_Witness == calls = S4Calls /\ maxSize = 3 /\ lastOp.removed = 1

\* C6: after cleanup() at time t no remaining entry has t - timestamp >
\* expiryMs, every entry with t - timestamp <= expiryMs is still present in
\* its place, and the number returned is the number of entries removed.
C6_Cleanup ==
  [][ IsCall("cleanup") =>
        /\ \A i \in 1..Len(cache') : ~(now - cache'[i].timestamp > expiryMs)
        /\ cache' = SelectSeq(cache, LAMBDA e : now - e.timestamp <= expiryMs)
        /\ lastOp'.removed = Len(cache) - Len(cache') ]_vars

\* C6 witness: a cleanup has removed entries and kept one whose age is
\* exactly expiryMs.
C6_Witness ==
  /\ lastOp.op = "cleanup" /\ lastOp.removed >= 1
  /\ \E i \in 1..Len(cache) : now - cache[i].timestamp = expiryMs

\* C21: a set whose entry is larger than maxMemoryBytes leaves the cache
\* with that entry alone, whatever it held before, and currentMemoryBytes
\* equal to the entry's sizeBytes.
C21_OversizedSet ==
  [][ (IsCall("set") /\ mapHas(cache', lastOp'.key)
         /\ mapGet(cache', lastOp'.key).sizeBytes > maxMemoryBytes) =>
        /\ Len(cache') = 1
        /\ cache'[1].key = lastOp'.key
        /\ cache'[1].data = lastOp'.data
        /\ cache'[1].headers = lastOp'.headers
        /\ cache'[1].timestamp = now
        /\ currentMemoryBytes' = cache'[1].sizeBytes ]_vars

\* C21 witness: a set larger than maxMemoryBytes has removed two entries of
\* other keys and its entry is the only one.
C21_Witness ==
  /\ lastOp.op = "set" /\ lastOp.removed >= 2
  /\ Len(cache) = 1 /\ cache[1].key = lastOp.key
  /\ cache[1].sizeBytes > maxMemoryBytes
  /\ currentMemoryBytes = cache[1].sizeBytes

\* C23: a get that returns a live entry changes the order of the entries
\* only: the entries are the same, with their data, headers, timestamp and
\* sizeBytes, the others keep their order, and currentMemoryBytes is
\* unchanged.
C23_GetHitFrame ==
  [][ (IsCall("get") /\ lastOp'.hit # <<>>) =>
        /\ Len(cache') = Len(cache)
        /\ {cache'[i] : i \in 1..Len(cache')} = {cache[i] : i \in 1..Len(cache)}
        /\ keySet(cache') = keySet(cache)
        /\ mapDelete(cache', lastOp'.key) = mapDelete(cache, lastOp'.key)
        /\ currentMemoryBytes' = currentMemoryBytes ]_vars

\* C23 witness: a get has returned a live entry some time after its
\* insertion and moved it behind an entry inserted later; its timestamp is
\* still that of the insertion.
C23_Witness ==
  /\ lastOp.op = "get" /\ lastOp.hit # <<>>
  /\ Len(cache) >= 2
  /\ cache[Len(cache)] = lastOp.hit[1]
  /\ cache[Len(cache)].timestamp < now
  /\ \E j \in 1..(Len(cache) - 1) : cache[j].timestamp > cache[Len(cache)].timestamp

----------------------------------------------------------------------------
(* headers.ts: the segment cache of the proxy, the switches, the handlers  *)

CACHE_MAX_SIZE == 2000
CACHE_MAX_MEMORY_BYTES == 500 * 1024 * 1024
CACHE_EXPIRY_MS == 2 * 60 * 60 * 1000

\* The period of the sweep timer.
CLEANUP_INTERVAL_MS == 30 * 60 * 1000

\* Values of an environment switch: the literal "true" and another string.
EnvValues == {"true", "false"}

\* Segment and key URLs, the URL of the manifest, a variant playlist URL.
Urls == {"A", "B"}
ManifestUrl == "M"
VariantUrl == "V"

\* A URI line that new URL(line, base) rejects.
BadRef == "http://"

\* The client's headers object, parsed from the headers query parameter.
ClientHeaders == {<<"Referer", "https://o.test/">>}

\* The headers query parameter: absent, valid JSON, invalid JSON.
HeaderParams == {"absent", "valid", "invalid"}

\* Bodies and header mappings an origin answers a segment fetch with.
Bodies == { [data |-> <<2, 2>>, headers |-> SomeHeaders] }

\* Manifest lines: kind is how the rewriter classifies the line, url the URL
\* the regex finds in a directive ("" when none) or the text of a URI line;
\* via and headers are set on a line whose URL was replaced by a proxy URL
\* P + via + "?url=" + enc(url) + "&headers=" + enc(JSON(headers)).
Line(kind, url) == [kind |-> kind, url |-> url, via |-> "", headers |-> NoHeaders]

TagLine == Line("tag", "")
BlankLine == Line("blank", "")
StreamInfLine == Line("streaminf", "")
KeyLine(u) == Line("key", u)
MediaLine(u) == Line("media", u)
UriLine(u) == Line("uri", u)

\* The manifests an origin serves: media playlists with a key and a segment,
\* with a key that has no URL and a segment, with a key and a line that does
\* not resolve; and a master playlist.
Manifests ==
  { <<TagLine, KeyLine("A"), UriLine("B")>>,
    <<KeyLine(""), UriLine("A"), BlankLine>>,
    <<KeyLine("A"), UriLine(BadRef)>>,
    <<StreamInfLine, UriLine(VariantUrl), MediaLine("A"), KeyLine("B")>> }

isCacheDisabled(env) == env = "true"

\* parseURL with a base: new URL(req_url, baseUrl).href, which throws on a
\* reference that is no URL. The references of the model are absolute URLs,
\* which resolve to themselves whatever the base.
parseURL(req_url, baseUrl) ==
  IF req_url = BadRef THEN [threw |-> TRUE, href |-> ""]
  ELSE [threw |-> FALSE, href |-> req_url]

cleanupCache(c, t) == cleanup(c, t).c

\* The headers of a prefetch request: the default User-Agent, then the
\* client's headers.
DEFAULT_USER_AGENT ==
  "Mozilla/5.0 (Windows NT 10.0; Win64; x64; rv:93.0) Gecko/20100101 Firefox/93.0"

outboundHeaders(headers) ==
  {d \in {<<"User-Agent", DEFAULT_USER_AGENT>>} : \A h \in headers : h[1] # d[1]}
    \cup headers

\* A prefetchSegment call. fetches counts its pooledRequest calls and method
\* is their method, response is what the origin answered; from tells a key
\* URL from a segment URL, and cleanups how many times its request had
\* called cleanupCache when the call was made.
Task(owner, url, headers, pc, swept) ==
  [owner |-> owner, url |-> url, headers |-> headers, pc |-> pc, swept |-> swept,
   fetches |-> IF pc = "hit" THEN 0 ELSE 1,
   method |-> IF pc = "hit" THEN "" ELSE "GET",
   response |-> "", from |-> "", cleanups |-> 0]

\* The calls started for a key or segment URL, marked with where they were made.
calledFor(started, from, cleanups) ==
  [i \in 1..Len(started) |-> [started[i] EXCEPT !.from = from, !.cleanups = cleanups]]

\* Mutant: the fetch and the set are done before prefetchSegment returns.
prefetchSegment_Sync(c, url, headers, env, owner, t) ==
  IF isCacheDisabled(env) THEN [c |-> c, started |-> <<>>]
  ELSE LET r == get(c, url, t) IN
       IF r.ret # <<>>
       THEN [c |-> r.c, started |-> <<Task(owner, url, outboundHeaders(headers), "hit", FALSE)>>]
       ELSE [c |-> set(r.c, url, <<1>>, SomeHeaders, <<>>, t),
             started |-> <<[Task(owner, url, outboundHeaders(headers), "stored", r.c # c)
                              EXCEPT !.response = "ok"]>>]

\* prefetchSegment up to its first await: the switch, the cache lookup, and
\* the request handed to pooledRequest. swept records that the lookup met an
\* expired entry and deleted it.
prefetchSegment(c, url, headers, env, owner, t) ==
  IF isCacheDisabled(env) THEN [c |-> c, started |-> <<>>]
  ELSE LET r == get(c, url, t) IN
       IF r.ret # <<>>
       THEN [c |-> r.c, started |-> <<Task(owner, url, outboundHeaders(headers), "hit", FALSE)>>]
       ELSE [c |-> r.c,
             started |-> <<Task(owner, url, outboundHeaders(headers), "fetching", r.c # c)>>]

\* Mutant: a response that is not ok is read and stored like one that is.
afterResponse_StoresNotOk(outcome) ==
  CASE outcome = "error" -> "caught"
    [] OTHER -> "reading"

\* prefetchSegment after await pooledRequest: a response that is not ok ends
\* the task, a rejection is caught.
afterResponse(outcome) ==
  CASE outcome = "ok" -> "reading"
    [] outcome = "non2xx" -> "aborted"
    [] OTHER -> "caught"

\* Mutant: an error while the body is read escapes the try block.
afterBody_Uncaught(outcome) ==
  CASE outcome = "ok" -> "stored"
    [] OTHER -> "unhandled"

\* prefetchSegment after await response.arrayBuffer(): set, or the catch.
afterBody(outcome) ==
  CASE outcome = "ok" -> "stored"
    [] OTHER -> "caught"

proxied(line, via, headers) == [line EXCEPT !.via = via, !.headers = headers]

\* Mutant: with the cache disabled a key line is passed through unchanged.
keyLine_SkipsWhenDisabled(line, headers, env) ==
  IF isCacheDisabled(env) THEN line ELSE proxied(line, "/ts-proxy", headers)

\* The rewritten #EXT-X-KEY line of a media playlist.
keyLine(line, headers, env) == proxied(line, "/ts-proxy", headers)

\* One line of a media playlist. acc holds the cache state, the lines pushed
\* so far, segmentUrls, the prefetches started, and whether parseURL threw.
mediaLine(acc, line, url, headers, env, owner, t) ==
  CASE line.kind = "key" /\ line.url # "" ->
         LET p == IF ~isCacheDisabled(env)
                  THEN prefetchSegment(acc.c, line.url, headers, env, owner, t)
                  ELSE [c |-> acc.c, started |-> <<>>]
         IN [acc EXCEPT !.newLines = Append(@, keyLine(line, headers, env)),
                        !.c = p.c,
                        !.started = @ \o calledFor(p.started, "key", acc.cleanups)]
    [] line.kind = "uri" ->
         LET segmentUrl == parseURL(line.url, url) IN
         IF segmentUrl.threw THEN [acc EXCEPT !.threw = TRUE]
         ELSE [acc EXCEPT !.segmentUrls = Append(@, segmentUrl.href),
                          !.newLines = Append(@, proxied([line EXCEPT !.url = segmentUrl.href],
                                                         "/ts-proxy", headers))]
    [] OTHER -> [acc EXCEPT !.newLines = Append(@, line)]

RECURSIVE mediaLoop(_, _, _, _, _, _, _)
mediaLoop(acc, lines, url, headers, env, owner, t) ==
  IF lines = <<>> \/ acc.threw THEN acc
  ELSE mediaLoop(mediaLine(acc, Head(lines), url, headers, env, owner, t),
                 Tail(lines), url, headers, env, owner, t)

\* segmentUrls.map(prefetchSegment): each call runs to its first await, in order.
RECURSIVE prefetchAll(_, _, _, _, _, _)
prefetchAll(acc, segmentUrls, headers, env, owner, t) ==
  IF segmentUrls = <<>> THEN acc
  ELSE LET p == prefetchSegment(acc.c, Head(segmentUrls), headers, env, owner, t) IN
       prefetchAll([acc EXCEPT !.c = p.c,
                               !.started = @ \o calledFor(p.started, "segment", acc.cleanups)],
                   Tail(segmentUrls), headers, env, owner, t)

\* Mutant: the fan-out does not call cleanupCache.
fanOut_NoCleanup(acc, headers, env, owner, t) ==
  IF Len(acc.segmentUrls) > 0 /\ ~isCacheDisabled(env)
  THEN prefetchAll(acc, acc.segmentUrls, headers, env, owner, t)
  ELSE acc

\* The prefetch fan-out after the loop of a media playlist.
fanOut(acc, headers, env, owner, t) ==
  IF Len(acc.segmentUrls) > 0 /\ ~isCacheDisabled(env)
  THEN prefetchAll([acc EXCEPT !.c = cleanupCache(acc.c, t), !.cleanups = @ + 1],
                   acc.segmentUrls, headers, env, owner, t)
  ELSE acc

\* One line of a master playlist.
masterLine(acc, line, url, headers) ==
  CASE line.kind = "key" /\ line.url # "" ->
         [acc EXCEPT !.newLines = Append(@, proxied(line, "/ts-proxy", headers))]
    [] line.kind = "media" /\ line.url # "" ->
         [acc EXCEPT !.newLines = Append(@, proxied(line, "/m3u8-proxy", headers))]
    [] line.kind = "uri" ->
         LET variantUrl == parseURL(line.url, url) IN
         IF variantUrl.threw THEN [acc EXCEPT !.threw = TRUE]
         ELSE [acc EXCEPT !.newLines = Append(@, proxied([line EXCEPT !.url = variantUrl.href],
                                                         "/m3u8-proxy", headers))]
    [] OTHER -> [acc EXCEPT !.newLines = Append(@, line)]

RECURSIVE masterLoop(_, _, _, _)
masterLoop(acc, lines, url, headers) ==
  IF lines = <<>> \/ acc.threw THEN acc
  ELSE masterLoop(masterLine(acc, Head(lines), url, headers), Tail(lines), url, headers)

\* m3u8Content.includes("RESOLUTION="): only a STREAM-INF line of the model holds it.
isMaster(lines) == \E i \in 1..Len(lines) : lines[i].kind = "streaminf"

\* proxyM3U8 from the manifest text on: the rewritten lines, the prefetches
\* started and the cache state they leave; threw when a URI line did not parse.
rewrite(c, lines, url, headers, env, owner, t) ==
  LET acc0 == [c |-> c, newLines |-> <<>>, segmentUrls |-> <<>>, started |-> <<>>,
               threw |-> FALSE, cleanups |-> 0]
  IN IF isMaster(lines) THEN masterLoop(acc0, lines, url, headers)
     ELSE LET acc == mediaLoop(acc0, lines, url, headers, env, owner, t) IN
          IF acc.threw THEN acc ELSE fanOut(acc, headers, env, owner, t)

----------------------------------------------------------------------------
(* SpecProxy *)

InitProxy ==
  /\ cache = <<>>
  /\ currentMemoryBytes = 0
  /\ maxSize = CACHE_MAX_SIZE
  /\ maxMemoryBytes = CACHE_MAX_MEMORY_BYTES
  /\ expiryMs = CACHE_EXPIRY_MS
  /\ now = 0
  /\ lastOp = NoOp
  /\ calls = <<>>
  /\ DISABLE_CACHE \in EnvValues
  /\ DISABLE_M3U8 \in EnvValues
  /\ everEnabled = (DISABLE_CACHE # "true")
  /\ requests = [r \in 1..MaxRequests |-> NewRequest]
  /\ tasks = <<>>
  /\ timerDue = FALSE
  /\ SideInit

\* process.env.DISABLE_CACHE is assigned while the process runs.
SetDisableCache ==
  \E v \in EnvValues :
    /\ v # DISABLE_CACHE
    /\ DISABLE_CACHE' = v
    /\ everEnabled' = (everEnabled \/ v # "true")
    /\ UNCHANGED <<cacheVars, confVars, sideVars, now, histVars, DISABLE_M3U8, requests, tasks,
                   timerDue>>

\* The request as it arrived: its path, whether it is a CORS preflight, its
\* url and headers query parameters.
Arrived(req, path, preflight, url, headersParam) ==
  [req EXCEPT !.path = path, !.preflight = preflight, !.url = url,
              !.headersParam = headersParam]

Answered(req, status, message) ==
  [req EXCEPT !.pc = "done", !.status = status, !.message = message]

\* Mutant: the default handler does not read DISABLE_M3U8.
defaultHandler_IgnoresSwitch(preflight, disableM3U8, path) ==
  CASE preflight -> "cors"
    [] path = "/cache-stats" -> "stats"
    [] OTHER -> "proxy"

\* The default handler: what answers the request.
defaultHandler(preflight, disableM3U8, path) ==
  CASE preflight -> "cors"
    [] disableM3U8 = "true" -> "disabled"
    [] path = "/cache-stats" -> "stats"
    [] OTHER -> "proxy"

\* Mutant: proxyM3U8 does not test the url parameter.
badRequest_NoUrlTest(url, headersParam) ==
  IF headersParam = "invalid" THEN << <<"Invalid headers format">> >> ELSE <<>>

\* proxyM3U8 before its fetch: the statusMessage of the 400 it answers with,
\* or <<>> when both parameters pass.
badRequest(url, headersParam) ==
  CASE url = "" -> << <<"URL parameter is required">> >>
    [] headersParam = "invalid" -> << <<"Invalid headers format">> >>
    [] OTHER -> <<>>

\* The message of the Error thrown on a manifest response that is not ok.
upstreamError(status, statusText) == <<"Failed to fetch M3U8: ", status, " ", statusText>>

\* The statuses of a manifest response that is not ok.
NotOkStatuses == {"404", "503"}

\* The requests for /m3u8-proxy: a CORS preflight, requests without url,
\* with headers that are not JSON, and with both parameters in order.
Queries ==
  { [preflight |-> TRUE, url |-> ManifestUrl, headersParam |-> "valid"],
    [preflight |-> FALSE, url |-> "", headersParam |-> "absent"],
    [preflight |-> FALSE, url |-> "", headersParam |-> "invalid"],
    [preflight |-> FALSE, url |-> ManifestUrl, headersParam |-> "invalid"],
    [preflight |-> FALSE, url |-> ManifestUrl, headersParam |-> "valid"] }

\* The default handler on a request for /m3u8-proxy, and proxyM3U8 up to
\* await pooledRequest.
ReceiveRequest(r) ==
  /\ requests[r].pc = "new"
  /\ \A q \in 1..(r - 1) : requests[q].pc # "new"
  /\ \E query \in Queries :
       LET preflight == query.preflight
           url == query.url
           headersParam == query.headersParam
           req == Arrived(requests[r], "/m3u8-proxy", preflight, url, headersParam)
           handler == defaultHandler(preflight, DISABLE_M3U8, "/m3u8-proxy")
           bad == badRequest(url, headersParam)
       IN \/ /\ handler = "cors"
             /\ requests' = [requests EXCEPT ![r] = Answered(req, 204, <<>>)]
          \/ /\ handler = "disabled"
             /\ requests' = [requests EXCEPT
                  ![r] = Answered(req, 404, <<"M3U8 proxying is disabled">>)]
          \/ /\ handler = "proxy" /\ bad # <<>>
             /\ requests' = [requests EXCEPT ![r] = Answered(req, 400, bad[1])]
          \/ /\ handler = "proxy" /\ bad = <<>>
             /\ requests' = [requests EXCEPT
                  ![r] = [req EXCEPT
                    !.pc = "fetching",
                    !.headers = IF headersParam = "valid" THEN ClientHeaders ELSE NoHeaders]]
  /\ UNCHANGED <<cacheVars, confVars, sideVars, now, histVars, envVars, tasks, timerDue>>

\* proxyM3U8 from the manifest response to its return: one synchronous run.
ManifestFetched(r) ==
  /\ requests[r].pc = "fetching"
  /\ \/ /\ requests' = [requests EXCEPT
             ![r] = Answered([@ EXCEPT !.upstream = "error"], 500, <<"fetch failed">>)]
        /\ UNCHANGED <<cacheVars, tasks>>
     \/ /\ \E status \in NotOkStatuses :
             requests' = [requests EXCEPT
               ![r] = Answered([@ EXCEPT !.upstream = status], 500,
                               upstreamError(status, ""))]
        /\ UNCHANGED <<cacheVars, tasks>>
     \/ \E m \in Manifests :
          LET out == rewrite(Self, m, requests[r].url, requests[r].headers,
                             DISABLE_CACHE, r, now)
          IN /\ cache' = out.c.cache
             /\ currentMemoryBytes' = out.c.currentMemoryBytes
             /\ tasks' = tasks \o out.started
             /\ requests' = [requests EXCEPT
                  ![r].pc = "done", ![r].manifest = m, ![r].upstream = "200",
                  ![r].cleanups = out.cleanups,
                  ![r].status = IF out.threw THEN 500 ELSE 200,
                  ![r].message = IF out.threw THEN <<"Invalid URL">> ELSE <<>>,
                  ![r].body = IF out.threw THEN <<>> ELSE out.newLines]
  /\ UNCHANGED <<confVars, sideVars, now, histVars, envVars, timerDue>>

\* prefetchSegment resumes with pooledRequest's result.
PrefetchResponse(i) ==
  /\ tasks[i].pc = "fetching"
  /\ \E outcome \in {"ok", "non2xx", "error"} :
       tasks' = [tasks EXCEPT ![i].pc = afterResponse(outcome), ![i].response = outcome]
  /\ UNCHANGED <<cacheVars, confVars, sideVars, now, histVars, envVars, requests, timerDue>>

\* prefetchSegment resumes with the body: segmentCache.set, or the catch.
PrefetchBody(i) ==
  /\ tasks[i].pc = "reading"
  /\ \/ /\ tasks' = [tasks EXCEPT ![i].pc = afterBody("error")]
        /\ UNCHANGED cacheVars
     \/ \E b \in Bodies :
          LET c == set(Self, tasks[i].url, b.data, b.headers, <<>>, now) IN
          /\ tasks' = [tasks EXCEPT ![i].pc = afterBody("ok")]
          /\ cache' = c.cache
          /\ currentMemoryBytes' = c.currentMemoryBytes
  /\ UNCHANGED <<confVars, sideVars, now, histVars, envVars, requests, timerDue>>

\* A request is over: its response is delivered and its prefetches have
\* ended. Its record and theirs are dropped and the slot is free again.
Running(task) == task.pc \in {"fetching", "reading"}

Forget(r) ==
  /\ requests[r].pc = "done"
  /\ \A i \in 1..Len(tasks) : tasks[i].owner = r => ~Running(tasks[i])
  /\ requests' = [requests EXCEPT ![r] = NewRequest]
  /\ tasks' = SelectSeq(tasks, LAMBDA task : task.owner # r)
  /\ UNCHANGED <<cacheVars, confVars, sideVars, now, histVars, envVars, timerDue>>

\* The instants of the proxy's clock: 0, then every multiple of
\* CACHE_EXPIRY_MS and the millisecond after it.
nextInstant(t) ==
  IF t > 0 /\ t % CACHE_EXPIRY_MS = 0 THEN t + 1
  ELSE ((t \div CACHE_EXPIRY_MS) + 1) * CACHE_EXPIRY_MS

ticksAt(t) ==
  2 * (t \div CACHE_EXPIRY_MS) - (IF t > 0 /\ t % CACHE_EXPIRY_MS = 0 THEN 1 ELSE 0)

\* The last time before t at which the interval timer fires.
lastFiringBefore(t) == ((t - 1) \div CLEANUP_INTERVAL_MS) * CLEANUP_INTERVAL_MS

\* The clock advances to the next instant, once the timer callback that is
\* due has run. The timer firings that fall strictly between the two instants
\* happen on the way (the last of them sweeps what the earlier ones swept),
\* and a firing that falls on the new instant is due there.
TickProxy ==
  /\ ticksAt(now) < MaxTime
  /\ ~timerDue
  /\ LET t == nextInstant(now)
         f == lastFiringBefore(t)
         c == IF f > now THEN cleanupCache(Self, f) ELSE Self
     IN /\ now' = t
        /\ cache' = c.cache
        /\ currentMemoryBytes' = c.currentMemoryBytes
        /\ timerDue' = (t % CLEANUP_INTERVAL_MS = 0)
  /\ UNCHANGED <<confVars, sideVars, histVars, envVars, requests, tasks>>

\* The interval timer calls cleanupCache.
TimerCleanup ==
  /\ timerDue
  /\ timerDue' = FALSE
  /\ LET c == cleanupCache(Self, now) IN
       /\ cache' = c.cache
       /\ currentMemoryBytes' = c.currentMemoryBytes
  /\ UNCHANGED <<confVars, sideVars, now, histVars, envVars, requests, tasks>>

\* handleCacheStats: cleanupCache, then getCacheStats. The cache it leaves
\* and the statistics it returns.
handleCacheStats(c, t) ==
  LET swept == cleanupCache(c, t) IN [c |-> swept, stats |-> getStats(swept)]

\* The default handler on a GET for /cache-stats.
CacheStats(r) ==
  /\ requests[r].pc = "new"
  /\ \A q \in 1..(r - 1) : requests[q].pc # "new"
  /\ LET req == Arrived(requests[r], "/cache-stats", FALSE, "", "absent")
         handler == defaultHandler(FALSE, DISABLE_M3U8, "/cache-stats")
         out == handleCacheStats(Self, now)
     IN \/ /\ handler = "disabled"
           /\ requests' = [requests EXCEPT
                ![r] = Answered(req, 404, <<"M3U8 proxying is disabled">>)]
           /\ UNCHANGED cacheVars
        \/ /\ handler = "stats"
           /\ requests' = [requests EXCEPT
                ![r] = [Answered(req, 200, <<>>) EXCEPT !.stats = <<out.stats>>]]
           /\ cache' = out.c.cache
           /\ currentMemoryBytes' = out.c.currentMemoryBytes
  /\ UNCHANGED <<confVars, sideVars, now, histVars, envVars, tasks, timerDue>>

\* getCachedSegment(url), the cache read of the segment route.
GetCachedSegment ==
  \E url \in Urls :
    /\ IF isCacheDisabled(DISABLE_CACHE) THEN UNCHANGED cacheVars
       ELSE LET r == get(Self, url, now) IN
            /\ cache' = r.c.cache
            /\ currentMemoryBytes' = r.c.currentMemoryBytes
    /\ UNCHANGED <<confVars, sideVars, now, histVars, proxyVars>>

NextProxy ==
  \/ TickProxy
  \/ SetDisableCache
  \/ \E r \in 1..MaxRequests : ReceiveRequest(r)
  \/ \E r \in 1..MaxRequests : ManifestFetched(r)
  \/ \E i \in 1..Len(tasks) : PrefetchResponse(i)
  \/ \E i \in 1..Len(tasks) : PrefetchBody(i)
  \/ \E r \in 1..MaxRequests : Forget(r)
  \/ TimerCleanup
  \/ \E r \in 1..MaxRequests : CacheStats(r)
  \/ GetCachedSegment

SpecProxy == InitProxy /\ [][NextProxy]_vars

----------------------------------------------------------------------------
(* Properties of the proxy (checked under SpecProxy) *)

FailedPcs == {"aborted", "caught", "unhandled"}

\* The step is task i of the open tasks ending in a failure.
Fails(i) ==
  /\ Len(tasks') = Len(tasks)
  /\ Running(tasks[i])
  /\ tasks'[i].pc \in FailedPcs

\* The step is a deposit of task i: its pc becomes "stored".
Deposits(i) ==
  /\ tasks'[i].pc = "stored"
  /\ \/ i > Len(tasks)
     \/ Len(tasks') = Len(tasks) /\ tasks[i].pc # "stored"

\* C7 as stated: while DISABLE_CACHE is "true" no step changes the contents of
\* the segment cache or currentMemoryBytes.
C7_Original ==
  [][ isCacheDisabled(DISABLE_CACHE) => UNCHANGED cacheVars ]_vars

\* C8: the manifest a request is answered with is the one the rewriter gives
\* for either value of DISABLE_CACHE; and while DISABLE_CACHE has been "true"
\* throughout, no prefetch has been started and the cache is empty.
C8_DisabledSameManifest ==
  /\ \A r \in 1..MaxRequests :
       (requests[r].pc = "done" /\ requests[r].status = 200) =>
         \A env \in EnvValues :
           requests[r].body =
             rewrite(clear(Self), requests[r].manifest, requests[r].url,
                     requests[r].headers, env, r, now).newLines
  /\ ~everEnabled => (tasks = <<>> /\ getStats(Self).entries = 0)

\* C8 witness: with DISABLE_CACHE "true" throughout, a media playlist with a
\* key URL and a segment has been answered with both lines rewritten.
C8_Witness ==
  /\ ~everEnabled
  /\ \E r \in 1..MaxRequests :
       /\ requests[r].pc = "done" /\ requests[r].status = 200
       /\ requests[r].manifest = <<TagLine, KeyLine("A"), UriLine("B")>>
       /\ requests[r].headers = ClientHeaders
       /\ requests[r].body[2].via = "/ts-proxy"
       /\ requests[r].body[3].via = "/ts-proxy"

\* C9: a prefetch task deposits its result only when the request that
\* started it has returned its manifest before that step.
C9_ManifestBeforeDeposit ==
  [][ \A i \in 1..Len(tasks') :
        Deposits(i) => requests[tasks'[i].owner].pc = "done" ]_vars

\* C9 witness: a request has been answered 200 while both of its prefetches
\* still wait for the origin.
C9_Witness ==
  \E r \in 1..MaxRequests :
    /\ requests[r].pc = "done" /\ requests[r].status = 200
    /\ Len(tasks) = 2
    /\ \A i \in 1..Len(tasks) : tasks[i].owner = r /\ tasks[i].pc = "fetching"

C10_FailedTaskTouchedNothing ==
  \A i \in 1..Len(tasks) : tasks[i].pc \in FailedPcs => ~tasks[i].swept

ReachedProxyM3U8(q) ==
  q.path = "/m3u8-proxy" /\ ~q.preflight /\ DISABLE_M3U8 # "true"

BadParams(q) == q.url = "" \/ q.headersParam = "invalid"

\* The step answers request r.
Answers(r) == requests[r].pc # "done" /\ requests'[r].pc = "done"

C15_Answer ==
  \A r \in 1..MaxRequests :
    LET q == requests[r] IN
    (q.pc = "done" /\ ReachedProxyM3U8(q)) =>
      /\ BadParams(q) => (q.status = 400 /\ q.upstream = "")
      /\ q.upstream \in NotOkStatuses =>
           (q.status = 500 /\ \E i \in 1..Len(q.message) : q.message[i] = q.upstream)

C15_NoSideEffect ==
  \A r \in 1..MaxRequests :
    (Answers(r) /\ ReachedProxyM3U8(requests'[r])
       /\ (BadParams(requests'[r]) \/ requests'[r].upstream \in NotOkStatuses)) =>
      (tasks' = tasks /\ UNCHANGED cacheVars)

\* C15: a request that reaches proxyM3U8 without url, or with a headers
\* parameter that is not JSON, is answered 400 with no origin fetch, no
\* prefetch and no cache change; one whose manifest fetch is answered with a
\* status that is not 2xx is answered 500 with that status in the message,
\* and starts no prefetch.
C15_BadRequests == []C15_Answer /\ [][C15_NoSideEffect]_vars

\* C15 witness: a manifest fetch was answered 503 and the request 500, with
\* 503 in its message and no prefetch started.
C15_Witness ==
  \E r \in 1..MaxRequests :
    /\ requests[r].pc = "done" /\ requests[r].upstream = "503"
    /\ requests[r].status = 500 /\ requests[r].message[2] = "503"
    /\ requests[r].headersParam = "valid"
    /\ tasks = <<>>

C16_Answer(q) ==
  /\ q.pc = "done"
  /\ q.status = 404
  /\ q.message = <<"M3U8 proxying is disabled">>
  /\ q.upstream = ""

C16_NoSideEffect ==
  \A r \in 1..MaxRequests :
    (Answers(r) /\ DISABLE_M3U8 = "true" /\ requests'[r].path = "/m3u8-proxy") =>
      (tasks' = tasks /\ UNCHANGED cacheVars)

C16_EveryRequest404 ==
  DISABLE_M3U8 = "true" =>
    \A r \in 1..MaxRequests :
      (requests[r].pc # "new" /\ requests[r].path = "/m3u8-proxy") =>
        C16_Answer(requests[r])

\* C16 as stated: while DISABLE_M3U8 is "true" every request for /m3u8-proxy
\* is answered 404 "M3U8 proxying is disabled", with no origin fetch, no
\* prefetch and no cache change.
C16_Original == []C16_EveryRequest404 /\ [][C16_NoSideEffect]_vars

C16_PreflightOr404 ==
  DISABLE_M3U8 = "true" =>
    \A r \in 1..MaxRequests :
      (requests[r].pc # "new" /\ requests[r].path = "/m3u8-proxy") =>
        IF requests[r].preflight
        THEN requests[r].pc = "done" /\ requests[r].status = 204
             /\ requests[r].upstream = ""
        ELSE C16_Answer(requests[r])

\* C16 amended: the same of every request that is not a CORS preflight; a
\* preflight is answered by the CORS handler, it too without origin fetch,
\* prefetch or cache change.
C16_Amended == []C16_PreflightOr404 /\ [][C16_NoSideEffect]_vars

\* C16 witness: with DISABLE_M3U8 "true", a request with a url and valid
\* headers has been answered 404.
C16_Witness ==
  /\ DISABLE_M3U8 = "true"
  /\ \E r \in 1..MaxRequests :
       /\ requests[r].path = "/m3u8-proxy" /\ ~requests[r].preflight
       /\ requests[r].url = ManifestUrl /\ requests[r].headersParam = "valid"
       /\ C16_Answer(requests[r])

\* C18 as stated: every GET /cache-stats is answered with the statistics of
\* the cache as cleanup() leaves it, which hold no expired entry, whatever
\* the switches are set to.
C18_Original ==
  [][ \A r \in 1..MaxRequests :
        (Answers(r) /\ requests'[r].path = "/cache-stats") =>
          /\ requests'[r].status = 200
          /\ requests'[r].stats = <<getStats(cleanup(Self, now).c)>>
          /\ cache' = cleanup(Self, now).c.cache
          /\ \A i \in 1..Len(cache') : ~isExpired(cache'[i], now) ]_vars

\* The cache holds an entry for url that has not expired at t.
live(c, url, t) == mapHas(c.cache, url) /\ ~isExpired(mapGet(c.cache, url), t)

C19_Task ==
  \A i \in 1..Len(tasks) :
    /\ tasks[i].pc = "hit" => tasks[i].fetches = 0
    /\ tasks[i].pc # "hit" => (tasks[i].fetches = 1 /\ tasks[i].method = "GET")
    /\ tasks[i].pc = "stored" => tasks[i].response = "ok"

C19_Step ==
  /\ \A i \in (Len(tasks) + 1)..Len(tasks') :
       (tasks'[i].pc = "hit") <=> live(Self, tasks'[i].url, now)
  /\ \A k \in 1..Len(cache') :
       (\A j \in 1..Len(cache) : cache[j] # cache'[k]) =>
         \E i \in 1..Len(tasks) :
           /\ Deposits(i)
           /\ tasks[i].response = "ok"
           /\ tasks[i].url = cache'[k].key

\* C19: a prefetch task makes no request when the cache holds a live entry
\* for its URL and one GET otherwise; it stores only after a response that is
\* ok, and the cache gains an entry only in the deposit of such a task.
C19_PrefetchTask == []C19_Task /\ [][C19_Step]_vars

\* C19 witness: a task ended on a live entry without a request, the other
\* task of the request was aborted on a response that is not ok and the cache
\* has no entry for its URL.
C19_Witness ==
  \E i, j \in 1..Len(tasks) :
    /\ tasks[i].pc = "hit" /\ tasks[i].fetches = 0
    /\ tasks[j].pc = "aborted" /\ tasks[j].response = "non2xx"
    /\ ~mapHas(cache, tasks[j].url)

----------------------------------------------------------------------------
(* Header policy (headers.ts 1-97) and the headers of the outbound requests *)

\* String.prototype.toLowerCase on the header names of the model.
toLowerCase(name) ==
  CASE name = "User-Agent" -> "user-agent"
    [] name = "Referer" -> "referer"
    [] name = "Cookie" -> "cookie"
    [] name = "Origin" -> "origin"
    [] name = "X-Real-Ip" -> "x-real-ip"
    [] name = "X-Cookie" -> "x-cookie"
    [] name = "X-Referer" -> "x-referer"
    [] name = "X-Origin" -> "x-origin"
    [] name = "X-User-Agent" -> "x-user-agent"
    [] name = "X-X-Real-Ip" -> "x-x-real-ip"
    [] name = "X-Forwarded-For" -> "x-forwarded-for"
    [] name = "CF-Ray" -> "cf-ray"
    [] name = "Content-Length" -> "content-length"
    [] OTHER -> name

\* headerMap, as Object.entries lists it.
headerMap ==
  << <<"X-Cookie", "Cookie">>, <<"X-Referer", "Referer">>, <<"X-Origin", "Origin">>,
     <<"X-User-Agent", "User-Agent">>, <<"X-X-Real-Ip", "X-Real-Ip">> >>

blacklistedHeaders ==
  { "cf-connecting-ip", "cf-worker", "cf-ray", "cf-visitor", "cf-ew-via", "cdn-loop",
    "x-amzn-trace-id", "cf-ipcountry", "x-forwarded-for", "x-forwarded-host",
    "x-forwarded-proto", "forwarded", "x-real-ip", "content-length" }
    \cup { headerMap[i][1] : i \in 1..Len(headerMap) }

BLACKLISTED_HEADERS_SET == { toLowerCase(h) : h \in blacklistedHeaders }

\* The Headers class: names are kept lower-cased, one value per name.
HeadersGet(headers, name) ==
  LET found == { h \in headers : h[1] = toLowerCase(name) } IN
  IF found = {} THEN <<>> ELSE << (CHOOSE h \in found : TRUE)[2] >>

HeadersSet(headers, name, value) ==
  { h \in headers : h[1] # toLowerCase(name) } \cup { <<toLowerCase(name), value>> }

\* new Headers(init) of an object whose names differ in more than case.
NewHeaders(init) == { <<toLowerCase(h[1]), h[2]>> : h \in init }

copyHeader(headers, outputHeaders, inputKey, outputKey) ==
  LET value == HeadersGet(headers, inputKey) IN
  IF value # <<>> THEN HeadersSet(outputHeaders, outputKey, value[1]) ELSE outputHeaders

RECURSIVE copyHeaders(_, _, _)
copyHeaders(headers, output, entries) ==
  IF entries = <<>> THEN output
  ELSE copyHeaders(headers,
                   copyHeader(headers, output, Head(entries)[1], Head(entries)[2]),
                   Tail(entries))

getProxyHeaders(headers) ==
  copyHeaders(headers, HeadersSet({}, "User-Agent", DEFAULT_USER_AGENT), headerMap)

filterHeaders(headers) ==
  { h \in headers : toLowerCase(h[1]) \notin BLACKLISTED_HEADERS_SET }

\* mergeHeaders: with no input it returns defaults itself, a plain object.
RECURSIVE mergeInto(_, _)
mergeInto(merged, inputs) ==
  IF inputs = <<>> THEN merged
  ELSE LET input == Head(inputs)
           names == { h[1] : h \in input }
       IN mergeInto({ h \in merged : \A n \in names : h[1] # toLowerCase(n) }
                      \cup NewHeaders(input),
                    Tail(inputs))

mergeHeaders(defaults, inputs) ==
  IF inputs = <<>> THEN [isHeaders |-> FALSE, headers |-> defaults]
  ELSE [isHeaders |-> TRUE, headers |-> mergeInto(NewHeaders(defaults), inputs)]

\* The accept-encoding value with zstd taken out of the list.
withoutZstd(h) ==
  IF h = <<"accept-encoding", "gzip, zstd, br">> THEN <<"accept-encoding", "gzip, br">>
  ELSE h

\* specificProxyRequest: the headers handed to sendProxy, or the TypeError of
\* fetchHeaders.entries() on the plain object mergeHeaders returned.
specificProxyRequest(oldHeaders, blacklisted, inputs) ==
  LET decoded == { withoutZstd(h) : h \in oldHeaders }
      kept == IF blacklisted THEN filterHeaders(NewHeaders(decoded)) ELSE decoded
      fetchHeaders == mergeHeaders(kept, inputs)
  IN IF fetchHeaders.isHeaders
     THEN [kind |-> "proxy", headers |-> fetchHeaders.headers]
     ELSE [kind |-> "threw", headers |-> {}]

\* The headers objects a client sends in the headers query parameter.
ClientHeaderPool ==
  { <<"Referer", "https://o.test/">>, <<"User-Agent", "curl/8">>,
    <<"user-agent", "curl/8">>, <<"X-Forwarded-For", "1.2.3.4">>,
    <<"CF-Ray", "8f">>, <<"Content-Length", "0">> }

ClientHeaderObjects == SUBSET ClientHeaderPool

\* The request headers of an inbound request, named as Node names them.
InboundHeaderPool ==
  { <<"user-agent", "curl/8">>, <<"x-forwarded-for", "1.2.3.4">>,
    <<"accept-encoding", "gzip, zstd, br">>, <<"x-cookie", "c=1">>,
    <<"x-x-real-ip", "9.9.9.9">> }

InboundHeaders == SUBSET InboundHeaderPool

coreVars == <<cacheVars, confVars, now, histVars, proxyVars, rewriting>>

\* The module state of headers.ts before any request.
CoreInit ==
  /\ cache = <<>>
  /\ currentMemoryBytes = 0
  /\ maxSize = CACHE_MAX_SIZE
  /\ maxMemoryBytes = CACHE_MAX_MEMORY_BYTES
  /\ expiryMs = CACHE_EXPIRY_MS
  /\ now = 0
  /\ lastOp = NoOp
  /\ calls = <<>>
  /\ DISABLE_CACHE = "false"
  /\ DISABLE_M3U8 = "false"
  /\ everEnabled = TRUE
  /\ requests = [r \in 1..MaxRequests |-> NewRequest]
  /\ tasks = <<>>
  /\ timerDue = FALSE

InitHeaders == CoreInit /\ SideInit

\* proxyM3U8 sends the manifest fetch.
SendManifestFetch ==
  /\ \E headers \in ClientHeaderObjects :
       outbound' = [kind |-> "manifest", headers |-> outboundHeaders(headers)]
  /\ UNCHANGED <<coreVars, poolVars>>

\* prefetchSegment sends the fetch of a segment or key.
SendPrefetch ==
  /\ \E headers \in ClientHeaderObjects :
       outbound' = [kind |-> "prefetch", headers |-> outboundHeaders(headers)]
  /\ UNCHANGED <<coreVars, poolVars>>

\* specificProxyRequest, called with or without opts.blacklistedHeaders, and
\* with opts.headers absent or getProxyHeaders(event.headers).
SendProxy ==
  /\ \E oldHeaders \in InboundHeaders, blacklisted \in BOOLEAN, withHeaders \in BOOLEAN :
       outbound' = specificProxyRequest(
                     oldHeaders, blacklisted,
                     IF withHeaders THEN <<getProxyHeaders(oldHeaders)>> ELSE <<>>)
  /\ UNCHANGED <<coreVars, poolVars>>

NextHeaders ==
  \/ SendManifestFetch
  \/ SendPrefetch
  \/ SendProxy

SpecHeaders == InitHeaders /\ [][NextHeaders]_vars

Sent == outbound.kind \in {"manifest", "prefetch", "proxy"}

\* C11 as stated: the headers of every request sent to an origin hold no
\* header whose lower-cased name is blacklisted, and hold a User-Agent.
C11_Original ==
  Sent => /\ \A h \in outbound.headers : toLowerCase(h[1]) \notin BLACKLISTED_HEADERS_SET
          /\ \E h \in outbound.headers : toLowerCase(h[1]) = "user-agent"

----------------------------------------------------------------------------
(* The connection pool layer (ecosystem.config.js 16-113)                  *)

\* Pools constructed, registry clears and pooledRequest calls of one behaviour.
MaxPools == 3
MaxShutdowns == 1
MaxPooledRequests == 1

\* URLs as their parts <<origin, pathname, search>>; <<>> is a string that
\* new URL rejects.
Origins == {"http://a", "http://b"}
RequestUrls == { <<"http://a", "/x", "?q=1">>, <<>> }

\* The options of a pooledRequest call; an absent member is <<>>.
RequestOptions ==
  { [method |-> <<>>, headers |-> <<>>, body |-> <<>>, poolOptions |-> <<>>],
    [method |-> <<"POST">>, headers |-> <<ClientHeaders>>, body |-> <<"b">>,
     poolOptions |-> <<1>>] }

\* What an attempt ends with: a rejection, or a response with this status
\* code (as its digits).
Statuses == {"200", "404", "304"}
Outcomes == {"error"} \cup Statuses

Pool(origin, epoch) == [origin |-> origin, epoch |-> epoch, closed |-> FALSE]

poolsHas(ps, origin) == \E p \in ps : p[1] = origin
poolsGet(ps, origin) == (CHOOSE p \in ps : p[1] = origin)[2]

\* Mutant: getPool constructs a pool on every call.
getPool_AlwaysNew(ps, blt, epoch, origin) ==
  [pools |-> {p \in ps : p[1] # origin} \cup {<<origin, Len(blt) + 1>>},
   built |-> Append(blt, Pool(origin, epoch)),
   pool |-> Len(blt) + 1]

\* getPool: the registry and the construction log it leaves, the pool returned.
getPool(ps, blt, epoch, origin) ==
  IF ~poolsHas(ps, origin)
  THEN [pools |-> ps \cup {<<origin, Len(blt) + 1>>},
        built |-> Append(blt, Pool(origin, epoch)),
        pool |-> Len(blt) + 1]
  ELSE [pools |-> ps, built |-> blt, pool |-> poolsGet(ps, origin)]

\* A request as an origin sees it.
Wire(url, method, headers, body) ==
  [url |-> url, method |-> method, headers |-> headers, body |-> body]

orDefault(member, default) == IF member = <<>> THEN default ELSE member[1]

\* pool.request({path, method, headers, body}) on the pool of parsedUrl.origin.
poolRequest(parsedUrl, fetchOptions) ==
  Wire(<<parsedUrl[1]>> \o <<parsedUrl[2], parsedUrl[3]>>,
       orDefault(fetchOptions.method, "GET"),
       orDefault(fetchOptions.headers, {}),
       fetchOptions.body)

\* fetch(url, fetchOptions): GET and no headers when the options name none.
fetch(url, fetchOptions) ==
  Wire(url, orDefault(fetchOptions.method, "GET"), orDefault(fetchOptions.headers, {}),
       fetchOptions.body)

\* const { poolOptions, ...fetchOptions } = options
restOf(options) == [method |-> options.method, headers |-> options.headers,
                    body |-> options.body]

\* new Response(body, {status}) with a body that is not null throws on a
\* null body status.
nullBodyStatus(status) == status \in {"101", "103", "204", "205", "304"}

NoWire == <<>>

PooledCall(url, options, pc, sentPooled) ==
  [url |-> url, options |-> options, pc |-> pc, pooled |-> "pending",
   sentPooled |-> sentPooled, fallbacks |-> 0, sentFallback |-> NoWire,
   fallback |-> "none", result |-> "none", via |-> "none"]

\* pooledRequest after await pool.request: the response converted and
\* returned, or the catch and the fallback fetch.
afterPoolRequest(call, outcome) ==
  IF outcome = "error" \/ nullBodyStatus(outcome)
  THEN [call EXCEPT !.pooled = outcome, !.pc = "fallback", !.fallbacks = @ + 1,
                    !.sentFallback = <<fetch(call.url, restOf(call.options))>>]
  ELSE [call EXCEPT !.pooled = outcome, !.pc = "returned", !.result = outcome,
                    !.via = "pool"]

\* The fallback fetch settles: its response or its error is pooledRequest's.
afterFetch(call, outcome) ==
  IF outcome = "error"
  THEN [call EXCEPT !.fallback = outcome, !.pc = "rejected", !.result = "error",
                    !.via = "fetch"]
  ELSE [call EXCEPT !.fallback = outcome, !.pc = "returned", !.result = outcome,
                    !.via = "fetch"]

InitPool == CoreInit /\ SideInit

Handed(origin, epoch, caller, pool) ==
  [origin |-> origin, epoch |-> epoch, caller |-> caller, pool |-> pool]

\* A caller other than pooledRequest calls getPool(origin).
GetPoolCall ==
  /\ \E origin \in Origins :
       LET g == getPool(pools, built, shutdowns, origin) IN
       /\ Len(g.built) <= MaxPools
       /\ pools' = g.pools
       /\ built' = g.built
       /\ handed' = handed \cup {Handed(origin, shutdowns, "direct", g.pool)}
  /\ UNCHANGED <<coreVars, outbound, shutdowns, closing, preqs>>

\* pooledRequest up to await pool.request: new URL, getPool, the request.
PooledRequestStart ==
  /\ Len(preqs) < MaxPooledRequests
  /\ \E url \in RequestUrls, options \in RequestOptions :
       IF url = <<>>
       THEN /\ preqs' = Append(preqs, [PooledCall(url, options, "threw", NoWire)
                                         EXCEPT !.result = "error"])
            /\ UNCHANGED <<pools, built, handed>>
       ELSE LET g == getPool(pools, built, shutdowns, url[1]) IN
            /\ Len(g.built) <= MaxPools
            /\ pools' = g.pools
            /\ built' = g.built
            /\ handed' = handed \cup {Handed(url[1], shutdowns, "pooledRequest", g.pool)}
            /\ preqs' = Append(preqs, PooledCall(url, options, "pooled",
                                                 <<poolRequest(url, restOf(options))>>))
  /\ UNCHANGED <<coreVars, outbound, shutdowns, closing>>

PooledResponse(i) ==
  /\ preqs[i].pc = "pooled"
  /\ \E outcome \in Outcomes : preqs' = [preqs EXCEPT ![i] = afterPoolRequest(@, outcome)]
  /\ UNCHANGED <<coreVars, outbound, pools, built, shutdowns, handed, closing>>

FallbackResponse(i) ==
  /\ preqs[i].pc = "fallback"
  /\ \E outcome \in Outcomes : preqs' = [preqs EXCEPT ![i] = afterFetch(@, outcome)]
  /\ UNCHANGED <<coreVars, outbound, pools, built, shutdowns, handed, closing>>

\* closeAll up to its await: close() is called on every registered pool.
CloseAllStart ==
  /\ shutdowns + Len(closing) < MaxShutdowns
  /\ LET closed == { p[2] : p \in pools } IN
       /\ built' = [id \in 1..Len(built) |->
                      IF id \in closed THEN [built[id] EXCEPT !.closed = TRUE]
                      ELSE built[id]]
       /\ closing' = Append(closing, closed)
  /\ UNCHANGED <<coreVars, outbound, pools, shutdowns, handed, preqs>>

\* closeAll after its await: the registry is cleared and closeAll completes.
CloseAllResume(k) ==
  /\ k \in 1..Len(closing)
  /\ pools' = {}
  /\ shutdowns' = shutdowns + 1
  /\ closing' = SubSeq(closing, 1, k - 1) \o SubSeq(closing, k + 1, Len(closing))
  /\ UNCHANGED <<coreVars, outbound, built, handed, preqs>>

\* A close() rejects: Promise.all rejects and closeAll throws before clear().
CloseAllRejects(k) ==
  /\ k \in 1..Len(closing)
  /\ closing[k] # {}
  /\ closing' = SubSeq(closing, 1, k - 1) \o SubSeq(closing, k + 1, Len(closing))
  /\ UNCHANGED <<coreVars, outbound, pools, built, shutdowns, handed, preqs>>

NextPool ==
  \/ GetPoolCall
  \/ PooledRequestStart
  \/ \E i \in 1..Len(preqs) : PooledResponse(i)
  \/ \E i \in 1..Len(preqs) : FallbackResponse(i)
  \/ CloseAllStart
  \/ \E k \in 1..Len(closing) : CloseAllResume(k)
  \/ \E k \in 1..Len(closing) : CloseAllRejects(k)

SpecPool == InitPool /\ [][NextPool]_vars

\* C12: between two clears of the registry at most one pool is constructed
\* per origin, every getPool(origin) call of that period returned that pool,
\* and calls for distinct origins returned distinct pools.
C12_OnePoolPerOrigin ==
  /\ \A i, j \in 1..Len(built) :
       (built[i].origin = built[j].origin /\ built[i].epoch = built[j].epoch) => i = j
  /\ \A h \in handed :
       /\ h.pool \in 1..Len(built)
       /\ built[h.pool].origin = h.origin
       /\ built[h.pool].epoch = h.epoch
  /\ \A g, h \in handed :
       /\ (g.origin = h.origin /\ g.epoch = h.epoch) => g.pool = h.pool
       /\ g.origin # h.origin => g.pool # h.pool

\* C12 witness: two callers asked for one origin and were served the same
\* pool, a call for the other origin got another, and after a shutdown the
\* first origin was given a newly constructed pool.
C12_Witness ==
  \E n, m, k, l \in handed :
    /\ n.caller # m.caller /\ n.origin = m.origin /\ n.epoch = m.epoch
    /\ n.pool = m.pool
    /\ k.origin # n.origin /\ k.epoch = n.epoch
    /\ l.origin = n.origin /\ l.epoch > n.epoch
    /\ l.pool # n.pool

\* C13 as stated: a pooledRequest call makes the fallback fetch at most once,
\* and exactly when its pooled request failed with an error; the fallback
\* carries the URL, method, headers and body of the pooled request; the
\* fallback's error or response is what the call ends with.
C13_Original ==
  \A i \in 1..Len(preqs) :
    LET call == preqs[i] IN
    /\ call.fallbacks <= 1
    /\ (call.fallbacks = 1) <=> (call.pooled = "error")
    /\ call.fallbacks = 1 => call.sentFallback = call.sentPooled
    /\ call.pc = "rejected" => (call.fallback = "error" /\ call.result = "error")
    /\ (call.pc = "returned" /\ call.via = "fetch") => call.result = call.fallback

\* C14 as stated: when closeAll completes the registry is empty and close()
\* has been called on every pool constructed so far.
C14_Original ==
  [][ shutdowns' = shutdowns + 1 =>
        /\ pools' = {}
        /\ \A id \in 1..Len(built') : built'[id].closed ]_vars

----------------------------------------------------------------------------
(* The manifest text (headers.ts 106-109, 259-391): a string is the        *)
(* sequence of its characters, so that split, join, the tests on a line,   *)
(* the key URL pattern, the percent-encoding and the URL resolution work   *)
(* on the text as the code's calls do.                                     *)

\* The most lines of a manifest.
MaxLines == 3

\* What JavaScript's \s and String.trim take for white space, of ASCII.
WhiteSpace == {" ", "\t", "\n", "\r"}

Least(S) == CHOOSE x \in S : \A y \in S : x <= y
Greatest(S) == CHOOSE x \in S : \A y \in S : x >= y

\* s.substring(from - 1), one-based.
substring(s, from) == SubSeq(s, from, Len(s))

\* String.prototype.startsWith.
startsWith(s, p) == Len(s) >= Len(p) /\ SubSeq(s, 1, Len(p)) = p

\* String.prototype.indexOf, one-based, 0 when p does not occur.
indexOf(s, p) ==
  LET at == {i \in 1..(Len(s) - Len(p) + 1) : SubSeq(s, i, i + Len(p) - 1) = p}
  IN IF at = {} THEN 0 ELSE Least(at)

\* String.prototype.includes.
includes(s, p) == indexOf(s, p) # 0

\* String.prototype.trim.
trim(s) ==
  LET keep == {i \in 1..Len(s) : s[i] \notin WhiteSpace}
  IN IF keep = {} THEN <<>> ELSE SubSeq(s, Least(keep), Greatest(keep))

\* String.prototype.split with a separator that is not empty.
RECURSIVE split(_, _)
split(s, sep) ==
  LET i == indexOf(s, sep)
  IN IF i = 0 THEN <<s>>
     ELSE <<SubSeq(s, 1, i - 1)>> \o split(substring(s, i + Len(sep)), sep)

\* Array.prototype.join.
RECURSIVE join(_, _)
join(parts, sep) ==
  IF Len(parts) = 0 THEN <<>>
  ELSE IF Len(parts) = 1 THEN parts[1]
  ELSE parts[1] \o sep \o join(Tail(parts), sep)

\* String.prototype.replace with a string pattern: the first occurrence.
\* The replacements of proxyM3U8 hold no "$", which encodeURIComponent escapes.
replace(s, pattern, by) ==
  LET i == indexOf(s, pattern)
  IN IF i = 0 THEN s
     ELSE SubSeq(s, 1, i - 1) \o by \o substring(s, i + Len(pattern))

\* The index of the first character of s that is in stops, Len(s) + 1 if none.
cut(s, stops) ==
  LET at == {i \in 1..Len(s) : s[i] \in stops}
  IN IF at = {} THEN Len(s) + 1 ELSE Least(at)

\* The pattern /https?:\/\/[^\""\s]+/ of the key and media lines: the first
\* match in the line, <<>> when exec returns null.
schemeAt(s, i) ==
  IF startsWith(substring(s, i), <<"h", "t", "t", "p", "s", ":", "/", "/">>) THEN 8
  ELSE IF startsWith(substring(s, i), <<"h", "t", "t", "p", ":", "/", "/">>) THEN 7
  ELSE 0

\* [^\""\s]: a character a URL of the pattern goes on with.
inUrl(c) == c # "\"" /\ c \notin WhiteSpace

\* The pattern matches at i: a scheme and one character more.
matchesAt(s, i) ==
  /\ schemeAt(s, i) > 0
  /\ i + schemeAt(s, i) <= Len(s)
  /\ inUrl(s[i + schemeAt(s, i)])

\* The match that begins s: the characters up to the first that is not
\* inUrl, which no character of the scheme is.
matched(s) == SubSeq(s, 1, cut(s, {"\""} \cup WhiteSpace) - 1)

regexExec(s) ==
  IF \E i \in 1..Len(s) : matchesAt(s, i)
  THEN matched(substring(s, Least({i \in 1..Len(s) : matchesAt(s, i)})))
  ELSE <<>>

\* The escapes of the ASCII characters encodeURIComponent does not leave
\* alone: all but letters, digits and - _ . ! ~ * ' ( ). The grave accent,
\* which no string of the module can hold, is left out.
Escapes ==
  { <<"\t", <<"%", "0", "9">>>>, <<"\n", <<"%", "0", "A">>>>, <<"\r", <<"%", "0", "D">>>>, <<" ", <<"%", "2", "0">>>>,
    <<"\"", <<"%", "2", "2">>>>, <<"#", <<"%", "2", "3">>>>, <<"$", <<"%", "2", "4">>>>, <<"%", <<"%", "2", "5">>>>,
    <<"&", <<"%", "2", "6">>>>, <<"+", <<"%", "2", "B">>>>, <<",", <<"%", "2", "C">>>>, <<"/", <<"%", "2", "F">>>>,
    <<":", <<"%", "3", "A">>>>, <<";", <<"%", "3", "B">>>>, <<"<", <<"%", "3", "C">>>>, <<"=", <<"%", "3", "D">>>>,
    <<">", <<"%", "3", "E">>>>, <<"?", <<"%", "3", "F">>>>, <<"@", <<"%", "4", "0">>>>, <<"[", <<"%", "5", "B">>>>,
    <<"\\", <<"%", "5", "C">>>>, <<"]", <<"%", "5", "D">>>>, <<"^", <<"%", "5", "E">>>>,
    <<"{", <<"%", "7", "B">>>>, <<"|", <<"%", "7", "C">>>>, <<"}", <<"%", "7", "D">>>> }

escapeOf(c) == (CHOOSE e \in Escapes : e[1] = c)[2]

\* Each character of s that is in escaped is replaced by its escape.
RECURSIVE percentEncode(_, _)
percentEncode(s, escaped) ==
  IF s = <<>> THEN <<>>
  ELSE (IF Head(s) \in escaped THEN escapeOf(Head(s)) ELSE <<Head(s)>>)
         \o percentEncode(Tail(s), escaped)

\* Mutant: "&" is left as it is.
encodeURIComponent_KeepsAmpersand(s) ==
  percentEncode(s, {e[1] : e \in Escapes} \ {"&"})

\* encodeURIComponent on ASCII text.
encodeURIComponent(s) == percentEncode(s, {e[1] : e \in Escapes})

\* decodeURIComponent on text that encodeURIComponent wrote: each escape of
\* the table becomes its character; a "%" that begins none raises URIError.
RECURSIVE decodeURIComponent(_)
decodeURIComponent(s) ==
  IF s = <<>> THEN <<>>
  ELSE IF Head(s) # "%" THEN <<Head(s)>> \o decodeURIComponent(Tail(s))
  ELSE IF Len(s) >= 3 /\ \E e \in Escapes : e[2] = SubSeq(s, 1, 3)
       THEN <<(CHOOSE e \in Escapes : e[2] = SubSeq(s, 1, 3))[1]>>
              \o decodeURIComponent(substring(s, 4))
       ELSE <<"URIError">>

\* new URL(input, base).href for http and https URLs without credentials or
\* port, after the URL standard: the input loses its leading and trailing
\* white space and every tab and newline; an input with a scheme stands for
\* itself, any other is resolved against the base; dot segments are removed,
\* an empty path becomes "/", and the characters the standard escapes in a
\* path, a query and a fragment are escaped. A host with a forbidden
\* character raises TypeError.
PathEscaped == {" ", "\"", "#", "<", ">", "?", "{", "}"}
QueryEscaped == {" ", "\"", "#", "<", ">", "'"}
FragmentEscaped == {" ", "\"", "<", ">"}
ForbiddenInHost ==
  {" ", "#", "/", ":", "<", ">", "?", "@", "[", "\\", "]", "^", "|", "%"}

\* s before and from its first character that is in stops.
before(s, stops) == SubSeq(s, 1, cut(s, stops) - 1)
from(s, stops) == substring(s, cut(s, stops))

\* path, ?query and #fragment of the text after the host.
pathQueryFragment(s) ==
  [path |-> before(s, {"?", "#"}),
   query |-> before(from(s, {"?", "#"}), {"#"}),
   fragment |-> from(s, {"#"})]

\* scheme://, host, path, ?query and #fragment of text that begins with a scheme.
components(s) ==
  [scheme |-> SubSeq(s, 1, schemeAt(s, 1)),
   host |-> before(substring(s, schemeAt(s, 1) + 1), {"/", "?", "#"}),
   rest |-> pathQueryFragment(from(substring(s, schemeAt(s, 1) + 1), {"/", "?", "#"}))]

RECURSIVE removeDotSegments(_, _)
removeDotSegments(segments, out) ==
  IF segments = <<>> THEN out
  ELSE LET s == Head(segments)
           last == Len(segments) = 1
           above == IF out = <<>> THEN out ELSE SubSeq(out, 1, Len(out) - 1)
       IN IF s = <<".">>
          THEN removeDotSegments(Tail(segments), IF last THEN Append(out, <<>>) ELSE out)
          ELSE IF s = <<".", ".">>
          THEN removeDotSegments(Tail(segments),
                                 IF last THEN Append(above, <<>>) ELSE above)
          ELSE removeDotSegments(Tail(segments), Append(out, s))

\* The path as the href writes it.
normalPath(path) ==
  LET segments == IF path = <<>> THEN << <<>> >> ELSE split(substring(path, 2), <<"/">>)
  IN <<"/">> \o percentEncode(join(removeDotSegments(segments, <<>>), <<"/">>), PathEscaped)

serialize(scheme, host, rest) ==
  scheme \o host \o normalPath(rest.path) \o percentEncode(rest.query, QueryEscaped)
    \o percentEncode(rest.fragment, FragmentEscaped)

\* The directory of a path: the path up to its last "/".
directory(path) ==
  LET at == {i \in 1..Len(path) : path[i] = "/"}
  IN IF at = {} THEN <<"/">> ELSE SubSeq(path, 1, Greatest(at))

\* A reference without a scheme against the base: its path replaces the
\* base's or is joined to the base's directory; without a path the base's is
\* kept, and without a query the base's query too.
relative(b, rel) ==
  IF rel.path # <<>>
  THEN [b EXCEPT !.rest = [rel EXCEPT !.path = IF Head(rel.path) = "/" THEN rel.path
                                               ELSE directory(b.rest.path) \o rel.path]]
  ELSE IF rel.query # <<>>
  THEN [b EXCEPT !.rest.query = rel.query, !.rest.fragment = rel.fragment]
  ELSE [b EXCEPT !.rest.fragment = rel.fragment]

resolved(text, base) ==
  IF schemeAt(text, 1) > 0 THEN components(text)
  ELSE relative(components(base), pathQueryFragment(text))

hrefOf(u) ==
  IF u.host = <<>> \/ \E i \in 1..Len(u.host) : u.host[i] \in ForbiddenInHost
  THEN [threw |-> TRUE, href |-> <<>>]
  ELSE [threw |-> FALSE, href |-> serialize(u.scheme, u.host, u.rest)]

URL(input, base) ==
  hrefOf(resolved(SelectSeq(trim(input), LAMBDA c : c \notin {"\t", "\n", "\r"}), base))

\* parseURL(req_url, baseUrl) with a base URL (headers.ts 106-109).
parseURLText(req_url, baseUrl) == URL(req_url, baseUrl)

\* JSON.stringify of a headers object whose names and values need no escape.
JSONstringify(headers) ==
  <<"{">> \o join([i \in 1..Len(headers) |->
                   <<"\"">> \o headers[i][1] \o <<"\"", ":", "\"">> \o headers[i][2] \o <<"\"">>],
                <<",">>) \o <<"}">>

\* `${proto}://${host}` of the proxy's own request.
baseProxyUrl == <<"h", "t", "t", "p", ":", "/", "/", "p">>

\* The URL the proxy hands out for a target: endpoint, url= and headers=.
proxyUrlText(endpoint, target, headers) ==
  baseProxyUrl \o endpoint \o <<"?", "u", "r", "l", "=">> \o encodeURIComponent(target)
    \o <<"&", "h", "e", "a", "d", "e", "r", "s", "=">> \o encodeURIComponent(JSONstringify(headers))

\* A #EXT-X-KEY or #EXT-X-MEDIA line: the first absolute URL in it is
\* replaced by its proxy URL, a line without one is kept.
proxiedIn(line, found, endpoint, headers) ==
  IF found # <<>> THEN replace(line, found, proxyUrlText(endpoint, found, headers))
  ELSE line

tagLineText(line, endpoint, headers) ==
  proxiedIn(line, regexExec(line), endpoint, headers)

\* A line that is no tag: a URI line is resolved and replaced by its proxy
\* URL, a blank line is kept. parseURL may throw.
proxiedFor(line, parsed, endpoint, headers) ==
  IF parsed.threw THEN [threw |-> TRUE, line |-> <<>>]
  ELSE IF parsed.href # <<>>
  THEN [threw |-> FALSE, line |-> proxyUrlText(endpoint, parsed.href, headers)]
  ELSE [threw |-> FALSE, line |-> line]

uriLineText(line, endpoint, url, headers) ==
  IF trim(line) # <<>>
  THEN proxiedFor(line, parseURLText(line, url), endpoint, headers)
  ELSE [threw |-> FALSE, line |-> line]

\* One line of a master playlist.
masterLineText(line, url, headers) ==
  IF startsWith(line, <<"#">>)
  THEN [threw |-> FALSE,
        line |-> IF startsWith(line, <<"#", "E", "X", "T", "-", "X", "-", "K", "E", "Y", ":">>)
                 THEN tagLineText(line, <<"/", "t", "s", "-", "p", "r", "o", "x", "y">>, headers)
                 ELSE IF startsWith(line, <<"#", "E", "X", "T", "-", "X", "-", "M", "E", "D", "I", "A", ":">>)
                 THEN tagLineText(line, <<"/", "m", "3", "u", "8", "-", "p", "r", "o", "x", "y">>, headers)
                 ELSE line]
  ELSE uriLineText(line, <<"/", "m", "3", "u", "8", "-", "p", "r", "o", "x", "y">>, url, headers)

\* One line of a media playlist.
mediaLineText(line, url, headers) ==
  IF startsWith(line, <<"#">>)
  THEN [threw |-> FALSE,
        line |-> IF startsWith(line, <<"#", "E", "X", "T", "-", "X", "-", "K", "E", "Y", ":">>)
                 THEN tagLineText(line, <<"/", "t", "s", "-", "p", "r", "o", "x", "y">>, headers)
                 ELSE line]
  ELSE uriLineText(line, <<"/", "t", "s", "-", "p", "r", "o", "x", "y">>, url, headers)

\* The loop over the lines: what each line becomes, or that parseURL threw
\* on it.
rewriteLines(lines, master, url, headers) ==
  [i \in 1..Len(lines) |->
     IF master THEN masterLineText(lines[i], url, headers)
     ELSE mediaLineText(lines[i], url, headers)]

\* The body returned for the lines: a throw leaves the loop, is caught and
\* answered 500; otherwise the new lines are joined.
returned(out) ==
  IF \E i \in 1..Len(out) : out[i].threw THEN [kind |-> "error", text |-> <<>>]
  ELSE [kind |-> "manifest", text |-> join([i \in 1..Len(out) |-> out[i].line], <<"\n">>)]

\* proxyM3U8 from the manifest text to the body it returns.
proxyM3U8Text(m3u8Content, url, headers) ==
  returned(rewriteLines(split(m3u8Content, <<"\n">>),
                        includes(m3u8Content, <<"R", "E", "S", "O", "L", "U", "T", "I", "O", "N", "=">>), url, headers))

\* The url query parameter of the manifest request.
TextManifestUrl == <<"h", "t", "t", "p", ":", "/", "/", "o", "/", "d", "/", "m", ".", "m", "3", "u", "8", "?", "t", "=", "1">>

\* The lines manifests are made of: blank lines, tags, key and media lines
\* with an absolute and with a relative URI, URI lines that are relative,
\* rooted and absolute, with a query, an escape, a space, a carriage
\* return, dot segments and a fragment, and a line new URL rejects.
TextLines ==
  { <<>>,
    <<" ", "\t">>,
    <<"#", "E", "X", "T", "-", "X", "-", "M", "E", "D", "I", "A", "-", "S", "E", "Q", "U", "E", "N", "C", "E", ":", "0">>,
    <<"#", "E", "X", "T", "-", "X", "-", "S", "T", "R", "E", "A", "M", "-", "I", "N", "F", ":", "R", "E", "S", "O", "L", "U", "T", "I", "O", "N", "=", "1", "x", "1">>,
    <<"#", "E", "X", "T", "-", "X", "-", "K", "E", "Y", ":", "U", "R", "I", "=", "\"", "h", "t", "t", "p", ":", "/", "/", "k", "/", "k", "?", "a", "=", "1", "&", "b", "=", "2", "\"", ",", "I", "V", "=", "0", "x", "1">>,
    <<"#", "E", "X", "T", "-", "X", "-", "K", "E", "Y", ":", "U", "R", "I", "=", "\"", "k", ".", "b", "i", "n", "\"">>,
    <<"#", "E", "X", "T", "-", "X", "-", "M", "E", "D", "I", "A", ":", "U", "R", "I", "=", "\"", "h", "t", "t", "p", "s", ":", "/", "/", "k", "/", "a", ".", "m", "3", "u", "8", "\"">>,
    <<"s", ".", "t", "s">>,
    <<"/", "v", "/", "s", " ", "1", ".", "t", "s", "?", "t", "=", "a", "%", "2", "0", "b", "&", "u", "=", "1", "\r">>,
    <<".", ".", "/", "x", "/", ".", "/", "y", ".", "t", "s", "#", "t">>,
    <<"h", "t", "t", "p", "s", ":", "/", "/", "c">>,
    <<" ", "#", "x">>,
    <<"h", "t", "t", "p", ":", "/", "/", "<">> }

\* The headers objects of the headers query parameter.
TextHeaders == { <<>>, << <<<<"R", "e", "f", "e", "r", "e", "r">>, <<"h", "t", "t", "p", ":", "/", "/", "r", "/", "?", "a", "=", "1", "&", "b", "=", "2">>>> >> }

\* The manifest texts: up to MaxLines lines joined by "\n".
ManifestTexts ==
  { join(lines, <<"\n">>) : lines \in UNION {[1..n -> TextLines] : n \in 0..MaxLines} }

textVars ==
  <<cacheVars, confVars, now, histVars, proxyVars, outbound, poolVars>>

InitText == CoreInit /\ SideInit

\* await response.text(): the manifest text has arrived.
ManifestText ==
  /\ rewriting.pc = "idle"
  /\ \E m3u8Content \in ManifestTexts, headers \in TextHeaders :
       rewriting' = [rewriting EXCEPT !.pc = "fetched", !.url = TextManifestUrl,
                                      !.headers = headers,
                                      !.m3u8Content = m3u8Content]
  /\ UNCHANGED textVars

\* proxyM3U8 rewrites the text and returns.
RewriteText ==
  /\ rewriting.pc = "fetched"
  /\ rewriting' =
       [rewriting EXCEPT !.pc = "done",
                         !.result = proxyM3U8Text(rewriting.m3u8Content,
                                                  rewriting.url, rewriting.headers)]
  /\ UNCHANGED textVars

\* The next request.
NextText ==
  /\ rewriting.pc = "done"
  /\ rewriting' = NoRewriting
  /\ UNCHANGED textVars

NextRewrite == ManifestText \/ RewriteText \/ NextText

SpecRewrite == InitText /\ [][NextRewrite]_vars

\* The value of url= in a proxy URL, as the query string holds it.
urlParam(line) ==
  LET value == substring(line, indexOf(line, <<"?", "u", "r", "l", "=">>) + 5)
  IN SubSeq(value, 1, cut(value, {"&"}) - 1)

isUriLine(line) == ~startsWith(line, <<"#">>) /\ trim(line) # <<>>

isKeptLine(line) ==
  \/ trim(line) = <<>>
  \/ /\ startsWith(line, <<"#">>)
     /\ ~startsWith(line, <<"#", "E", "X", "T", "-", "X", "-", "K", "E", "Y", ":">>)
     /\ ~startsWith(line, <<"#", "E", "X", "T", "-", "X", "-", "M", "E", "D", "I", "A", ":">>)

----------------------------------------------------------------------------
(* The shared cache under concurrent prefetch tasks, segment reads and     *)
(* sweeps (headers.ts 147-214, 371-375; lru-cache.ts 27-120), with the     *)
(* limits of Configs so that both evictions happen. No LRUCache method     *)
(* awaits: a call runs whole between two steps of the tasks.               *)

\* The prefetch tasks started.
MaxTasks == 2

\* The calls on the cache: those of the tasks, the segment reads, the sweeps.
MaxCalls == 4

\* The bodies the origin answers with: 2 and 4 bytes.
SharedBodies ==
  { [data |-> <<2, 2>>, headers |-> SomeHeaders],
    [data |-> <<4, 4, 4, 4>>, headers |-> NoHeaders] }

\* A call on segmentCache, as the history calls records it.
CacheCall(op, key, data, headers, t) ==
  [op |-> op, key |-> key, data |-> data, headers |-> headers, time |-> t]

\* The cache after the call.
applyCall(c, call) ==
  CASE call.op = "get" -> get(c, call.key, call.time).c
    [] call.op = "set" -> set(c, call.key, call.data, call.headers, <<>>, call.time)
    [] OTHER -> cleanup(c, call.time).c

\* The cache after the calls, one after the other.
RECURSIVE replay(_, _)
replay(c, log) ==
  IF log = <<>> THEN c ELSE replay(applyCall(c, Head(log)), Tail(log))

sharedRest ==
  <<confVars, lastOp, DISABLE_CACHE, DISABLE_M3U8, everEnabled, requests, timerDue,
    sideVars>>

\* prefetchSegment is called: the lookup, and a task when it misses.
StartPrefetch ==
  /\ Len(tasks) < MaxTasks /\ Len(calls) < MaxCalls
  /\ \E url \in Urls :
       LET p == prefetchSegment(Self, url, NoHeaders, "false", 1, now) IN
       /\ cache' = p.c.cache
       /\ currentMemoryBytes' = p.c.currentMemoryBytes
       /\ tasks' = tasks \o p.started
       /\ calls' = Append(calls, CacheCall("get", url, <<>>, NoHeaders, now))
  /\ UNCHANGED <<now, sharedRest>>

\* A task ends without a call on the cache: the response is not ok, the
\* request or the reading of the body fails.
PrefetchFails(i) ==
  /\ tasks[i].pc = "fetching"
  /\ \E pc \in {afterResponse("non2xx"), afterResponse("error"), afterBody("error")} :
       tasks' = [tasks EXCEPT ![i].pc = pc]
  /\ UNCHANGED <<cacheVars, now, calls, sharedRest>>

\* A task has read its body and stores it.
PrefetchStores(i) ==
  /\ tasks[i].pc = "fetching" /\ Len(calls) < MaxCalls
  /\ afterResponse("ok") = "reading"
  /\ \E b \in SharedBodies :
       LET c == set(Self, tasks[i].url, b.data, b.headers, <<>>, now) IN
       /\ cache' = c.cache
       /\ currentMemoryBytes' = c.currentMemoryBytes
       /\ calls' = Append(calls, CacheCall("set", tasks[i].url, b.data, b.headers, now))
  /\ tasks' = [tasks EXCEPT ![i].pc = afterBody("ok")]
  /\ UNCHANGED <<now, sharedRest>>

\* getCachedSegment(url): a segment read.
ReadSegment ==
  /\ Len(calls) < MaxCalls
  /\ \E url \in Urls :
       LET r == get(Self, url, now) IN
       /\ cache' = r.c.cache
       /\ currentMemoryBytes' = r.c.currentMemoryBytes
       /\ calls' = Append(calls, CacheCall("get", url, <<>>, NoHeaders, now))
  /\ UNCHANGED <<now, tasks, sharedRest>>

\* cleanupCache(): a sweep of the timer, of a fan-out or of /cache-stats.
Sweep ==
  /\ Len(calls) < MaxCalls
  /\ LET c == cleanupCache(Self, now) IN
     /\ cache' = c.cache
     /\ currentMemoryBytes' = c.currentMemoryBytes
  /\ calls' = Append(calls, CacheCall("cleanup", NoKey, <<>>, NoHeaders, now))
  /\ UNCHANGED <<now, tasks, sharedRest>>

\* Date.now() advances while the tasks wait.
TickShared ==
  /\ now < MaxTime * expiryMs
  /\ now' = now + expiryMs
  /\ UNCHANGED <<cacheVars, tasks, calls, sharedRest>>

NextShared ==
  \/ StartPrefetch
  \/ \E i \in 1..Len(tasks) : PrefetchFails(i)
  \/ \E i \in 1..Len(tasks) : PrefetchStores(i)
  \/ ReadSegment
  \/ Sweep
  \/ TickShared

SpecShared == Init /\ [][NextShared]_vars

\* The largest sizeBytes a set has inserted so far.
largestInserted ==
  LET sizes == {entrySizeOf(calls[k].data, <<>>) : k \in {j \in 1..Len(calls) : calls[j].op = "set"}}
  IN IF sizes = {} THEN 0 ELSE CHOOSE x \in sizes : \A y \in sizes : y <= x

\* C22: whatever the interleaving of the prefetch tasks, the segment reads
\* and the sweeps, currentMemoryBytes is at least 0 and at most
\* maxMemoryBytes plus the largest sizeBytes inserted so far, no two entries
\* have the same URL, and the cache is what the gets, sets and sweeps made so
\* far give when they run one after the other.
C22_Consistent ==
  /\ currentMemoryBytes >= 0
  /\ currentMemoryBytes <= maxMemoryBytes + largestInserted
  /\ \A i, j \in 1..Len(cache) : cache[i].key = cache[j].key => i = j
  /\ Self = replay([cache |-> <<>>, currentMemoryBytes |-> 0], calls)

\* C22 witness: two tasks for the same URL were in flight together, both
\* have stored, the cache holds one entry for the URL and its bytes are above
\* maxMemoryBytes.
C22_Witness ==
  /\ \E i, j \in 1..Len(tasks) :
       /\ i < j /\ tasks[i].url = tasks[j].url
       /\ tasks[i].pc = "stored" /\ tasks[j].pc = "stored"
       /\ \E m, n \in 1..Len(calls) :
            /\ m < n /\ n + 1 < Len(calls)
            /\ calls[m].op = "get" /\ calls[n].op = "get"
            /\ calls[m].key = tasks[i].url /\ calls[n].key = tasks[i].url
            /\ calls[n + 1].op = "set" /\ calls[n + 1].key = tasks[i].url
  /\ currentMemoryBytes > maxMemoryBytes
  /\ Len(cache) = 1

====
